---- MODULE Spec2Model ----
(***************************************************************************)
(* Model of the qrie inventory / findings engine: the Resource Store and   *)
(* Findings Store conditional writes, the policy evaluator, the event path *)
(* and the reconciliation sweep, the policy delete cascade and the         *)
(* lazy-refresh summary cache.                                             *)
(*                                                                         *)
(* DynamoDB tables are partial functions from key to item; an item is a    *)
(* record whose DOMAIN is the set of attributes it carries, so that        *)
(* attribute_not_exists(x) is "x \notin DOMAIN item".                      *)
(***************************************************************************)
EXTENDS Integers, Sequences, FiniteSets, TLC

VARIABLES
    resources,   \* Resource Store: <<AccountService, ARN>> -> item
    findings,    \* Findings Store: <<ARN, Policy>> -> item
    policies,    \* LaunchedPolicy table: PolicyId -> item
    last,        \* record of the last operation executed (history)
    inflight,    \* writes handed to the store layer that have not arrived yet
    summary,     \* summary table: cache entry and refresh lock of one cache key
    readers,     \* the concurrent readers of the cache key: reader -> local state
    clock        \* wall clock, in seconds

vars == <<resources, findings, policies, last, inflight, summary, readers, clock>>

\* the summary cache is not in use
CacheIdle == summary = <<>> /\ readers = <<>> /\ clock = 0

----------------------------------------------------------------------------
(* Bounds *)

MaxTime == 3
Times == 1..MaxTime

\* largest batch handed to bulk_upsert_resources
MaxBatch == 2

\* describe times and wall-clock instants seen by the handlers
MaxStamp == 2
Stamps == 1..MaxStamp

----------------------------------------------------------------------------
(* ARNs, accounts, configurations *)

\* "arn:aws:s3:::<bucket>" split on ':' ; S3 bucket ARNs carry no account id
S3Arn(bucket) == <<"arn", "aws", "s3", "", "", bucket>>

Arns == {S3Arn("b1")}

\* common_utils.get_account_from_arn: parts[4] (0-based) of the ARN
get_account_from_arn(arn) == arn[5]

\* common_utils.get_service_from_arn: parts[2] (0-based) of the ARN
get_service_from_arn(arn) == arn[3]

\* rows of the accounts table (get_customer_accounts)
CustomerAccounts == {"111"}

\* f"{account_id}_{service}"
AccountServiceOf(account_id, service) == <<account_id, service>>

AllTrue == [BlockPublicAcls |-> TRUE, IgnorePublicAcls |-> TRUE,
            BlockPublicPolicy |-> TRUE, RestrictPublicBuckets |-> TRUE]

\* bucket configurations as s3_support.describe_resource returns them
PrivateConfig == [Name |-> "b1", PublicAccessBlockConfiguration |-> AllTrue]
PublicConfig  == [Name |-> "b1", PublicAccessBlockConfiguration |->
                     [AllTrue EXCEPT !.BlockPublicAcls = FALSE]]

\* Python None stored as an attribute value
NoneValue == [None |-> TRUE]

\* an optional argument that is given
Some(x) == [value |-> x]

\* describe_resource stores None for a bucket without a public access block
NullPabConfig == [Name |-> "b1", PublicAccessBlockConfiguration |-> NoneValue]

Configs == {PrivateConfig, PublicConfig, NullPabConfig}

\* dict.get(field, default)
Get(rec, field, default) == IF field \in DOMAIN rec THEN rec[field] ELSE default

----------------------------------------------------------------------------
(* Table primitives *)

EmptyTable == <<>>

HasItem(table, key) == key \in DOMAIN table

PutItem(table, key, item) == (key :> item) @@ table

DeleteItem(table, key) == [k \in DOMAIN table \ {key} |-> table[k]]

\* update_item ... SET: creates the item from its key attributes when it does
\* not exist, and overwrites only the attributes that are set
SetAttrs(table, key, keyAttrs, sets) ==
    PutItem(table, key, sets @@ (IF HasItem(table, key) THEN table[key] ELSE keyAttrs))

NoItem == [Absent |-> TRUE]

ItemOf(table, key) == IF HasItem(table, key) THEN table[key] ELSE NoItem

----------------------------------------------------------------------------
(* Resource Store (InventoryManager) *)

ResKey(account_id, service, arn) == <<AccountServiceOf(account_id, service), arn>>

\* mutation: the freshness test accepts an equal describe time
UpsertCondition_AcceptsEqual(table, key, describe_time_ms) ==
    \/ ~HasItem(table, key)
    \/ "DescribeTime" \notin DOMAIN table[key]
    \/ table[key].DescribeTime <= describe_time_ms

\* mutation: no freshness test, the last writer wins
UpsertCondition_Unconditional(table, key, describe_time_ms) == TRUE

\* ConditionExpression of upsert_resource
UpsertCondition(table, key, describe_time_ms) ==
    \/ ~HasItem(table, key)
    \/ "DescribeTime" \notin DOMAIN table[key]
    \/ table[key].DescribeTime < describe_time_ms

\* outcome of the conditional update_item inside upsert_resource
UpdateItemOutcome(table, key, describe_time_ms) ==
    IF UpsertCondition(table, key, describe_time_ms)
    THEN "ok" ELSE "ConditionalCheckFailedException"

\* the except clause of upsert_resource / put_finding
CaughtByUpsert(outcome) == outcome = "ConditionalCheckFailedException"

\* InventoryManager.upsert_resource: conditional update; a failed condition
\* (ConditionalCheckFailedException) is caught and the call returns normally
upsert_resource(table, account_id, service, arn, configuration, describe_time_ms) ==
    LET key == ResKey(account_id, service, arn) IN
    IF UpdateItemOutcome(table, key, describe_time_ms) = "ok"
    THEN SetAttrs(table, key,
                  [AccountService |-> AccountServiceOf(account_id, service), ARN |-> arn],
                  [Configuration |-> configuration,
                   DescribeTime |-> describe_time_ms,
                   LastSeenAt |-> describe_time_ms])
    ELSE table

\* whether upsert_resource lets an exception escape to its caller
upsert_resource_raises(table, account_id, service, arn, describe_time_ms) ==
    LET outcome == UpdateItemOutcome(table, ResKey(account_id, service, arn), describe_time_ms) IN
    outcome # "ok" /\ ~CaughtByUpsert(outcome)

\* InventoryManager.bulk_upsert_resources: batch_writer put_item, unconditional
RECURSIVE bulk_upsert_resources(_, _)
bulk_upsert_resources(table, items) ==
    IF items = <<>> THEN table
    ELSE bulk_upsert_resources(
            PutItem(table, <<Head(items).AccountService, Head(items).ARN>>, Head(items)),
            Tail(items))

\* InventoryManager.delete_resource with account_id given
delete_resource(table, arn, account_id) ==
    DeleteItem(table, ResKey(account_id, get_service_from_arn(arn), arn))

\* a well-formed Resource Store item
ResourceItem(account_id, service, arn, configuration, t) ==
    [AccountService |-> AccountServiceOf(account_id, service), ARN |-> arn,
     Configuration |-> configuration, DescribeTime |-> t, LastSeenAt |-> t]

\* accounts under which the model stores resources: the customer accounts and
\* the account the event path derives from the ARN
StoreAccounts == CustomerAccounts \cup {get_account_from_arn(a) : a \in Arns}

----------------------------------------------------------------------------
(* Findings Store (FindingsManager) *)

FindingKey(resource_arn, policy_id) == <<resource_arn, policy_id>>

\* wall-clock instants read by close_finding and purge_findings_for_policy
WallClock == Times

\* LastEvaluated is written as the describe time in ms by put_finding, as an
\* ISO string of the wall clock by close_finding and as the wall clock in ms
\* by purge_findings_for_policy
MsStamp(t) == <<"ms", t>>
IsoStamp(now) == <<"iso", now>>

\* mutation: put_finding only creates, it never updates an existing record
PutFindingCondition_OnlyCreates(table, key, describe_time_ms) == ~HasItem(table, key)

\* ConditionExpression of put_finding
PutFindingCondition(table, key, describe_time_ms) ==
    \/ ~HasItem(table, key)
    \/ "DescribeTime" \notin DOMAIN table[key]
    \/ table[key].DescribeTime < describe_time_ms

\* mutation: FirstSeen is set to :firstSeen on every accepted update
IfNotExistsFirstSeen_Overwrites(table, key, first_seen) == first_seen

\* FirstSeen = if_not_exists(FirstSeen, :firstSeen)
IfNotExistsFirstSeen(table, key, first_seen) ==
    IF HasItem(table, key) /\ "FirstSeen" \in DOMAIN table[key]
    THEN table[key].FirstSeen ELSE first_seen

\* FindingsManager.put_finding (first_seen_ms defaults to describe_time_ms)
put_finding(table, resource_arn, policy_id, account_service, severity, state, evidence, describe_time_ms) ==
    LET key == FindingKey(resource_arn, policy_id)
        first_seen == describe_time_ms IN
    IF PutFindingCondition(table, key, describe_time_ms)
    THEN SetAttrs(table, key,
                  [ARN |-> resource_arn, Policy |-> policy_id],
                  [State |-> state,
                   Severity |-> severity,
                   DescribeTime |-> describe_time_ms,
                   LastEvaluated |-> MsStamp(describe_time_ms),
                   Evidence |-> evidence,
                   AccountService |-> account_service,
                   FirstSeen |-> IfNotExistsFirstSeen(table, key, first_seen)])
    ELSE table

\* mutation: close_finding stamps LastEvaluated and leaves State alone
close_finding_OnlyStamps(table, resource_arn, policy_id, now) ==
    SetAttrs(table, FindingKey(resource_arn, policy_id),
             [ARN |-> resource_arn, Policy |-> policy_id],
             [LastEvaluated |-> IsoStamp(now)])

\* FindingsManager.close_finding: unconditional update_item
close_finding(table, resource_arn, policy_id, now) ==
    SetAttrs(table, FindingKey(resource_arn, policy_id),
             [ARN |-> resource_arn, Policy |-> policy_id],
             [State |-> "RESOLVED", LastEvaluated |-> IsoStamp(now)])

\* the scan of purge_findings_for_policy: Policy = :policy AND State = ACTIVE
PurgeScan(table, policy_id) ==
    {k \in DOMAIN table :
        /\ table[k].Policy = policy_id
        /\ "State" \in DOMAIN table[k]
        /\ table[k].State = "ACTIVE"}

\* one update_item of the purge loop
PurgeUpdate(table, key, now_ms) ==
    SetAttrs(table, key,
             [ARN |-> key[1], Policy |-> key[2]],
             [State |-> "RESOLVED", LastEvaluated |-> MsStamp(now_ms),
              ResolvedReason |-> "POLICY_SUSPENDED"])

RECURSIVE PurgeLoop(_, _, _, _)
\* the purge loop: an update that fails (key in failing) is logged and skipped
PurgeLoop(table, keys, failing, now_ms) ==
    IF keys = {} THEN table
    ELSE LET k == CHOOSE x \in keys : TRUE IN
         PurgeLoop(IF k \in failing THEN table ELSE PurgeUpdate(table, k, now_ms),
                   keys \ {k}, failing, now_ms)

\* FindingsManager.purge_findings_for_policy: the table after the call and the
\* count it returns; raised is set only when the scan itself fails
purge_findings_for_policy(table, policy_id, now_ms, scanFails, failing) ==
    IF scanFails
    THEN [table |-> table, purged_count |-> 0, raised |-> TRUE]
    ELSE LET items == PurgeScan(table, policy_id) IN
         [table |-> PurgeLoop(table, items, failing, now_ms),
          purged_count |-> Cardinality(items \ failing),
          raised |-> FALSE]

----------------------------------------------------------------------------
(* Scope Resolver (scoping.py) *)

EmptyScope ==
    [include_accounts |-> {}, exclude_accounts |-> {},
     include_tags |-> {}, exclude_tags |-> {},
     include_ou_paths |-> {}, exclude_ou_paths |-> {}]

\* _get_account_tags: no cross-account lookup is implemented, always {}
AccountTags(account_id) == EmptyTable

NoOuPath == <<"None">>

\* _get_account_ou_path: no cross-account lookup is implemented, always None
AccountOuPath(account_id) == NoOuPath

\* str.startswith on OU paths held as sequences of segments
StartsWith(path, prefix) ==
    /\ Len(prefix) <= Len(path)
    /\ SubSeq(path, 1, Len(prefix)) = prefix

\* a tag rule is a pair <<key, values>>; account_tags.get(key) in values
TagMatches(account_id, rule) ==
    /\ rule[1] \in DOMAIN AccountTags(account_id)
    /\ AccountTags(account_id)[rule[1]] \in rule[2]

OuMatches(account_id, ou_path) ==
    /\ AccountOuPath(account_id) # NoOuPath
    /\ StartsWith(AccountOuPath(account_id), ou_path)

\* mutation: an account of include_accounts is in scope without further checks
_account_in_scope_IncludeWins(account_id, scope) ==
    IF scope.include_accounts # {} /\ account_id \notin scope.include_accounts THEN FALSE
    ELSE IF scope.include_accounts # {} THEN TRUE
    ELSE IF scope.exclude_accounts # {} /\ account_id \in scope.exclude_accounts THEN FALSE
    ELSE IF scope.include_tags # {}
            /\ ~\E r \in scope.include_tags : TagMatches(account_id, r) THEN FALSE
    ELSE IF \E r \in scope.exclude_tags : TagMatches(account_id, r) THEN FALSE
    ELSE IF scope.include_ou_paths # {}
            /\ ~\E o \in scope.include_ou_paths : OuMatches(account_id, o) THEN FALSE
    ELSE IF \E o \in scope.exclude_ou_paths : OuMatches(account_id, o) THEN FALSE
    ELSE TRUE

\* scoping._account_in_scope
_account_in_scope(account_id, scope) ==
    IF scope.include_accounts # {} /\ account_id \notin scope.include_accounts THEN FALSE
    ELSE IF scope.exclude_accounts # {} /\ account_id \in scope.exclude_accounts THEN FALSE
    ELSE IF scope.include_tags # {}
            /\ ~\E r \in scope.include_tags : TagMatches(account_id, r) THEN FALSE
    ELSE IF \E r \in scope.exclude_tags : TagMatches(account_id, r) THEN FALSE
    ELSE IF scope.include_ou_paths # {}
            /\ ~\E o \in scope.include_ou_paths : OuMatches(account_id, o) THEN FALSE
    ELSE IF \E o \in scope.exclude_ou_paths : OuMatches(account_id, o) THEN FALSE
    ELSE TRUE

\* scoping.should_evaluate_resource
should_evaluate_resource(account_id, resource_arn, scope) ==
    _account_in_scope(account_id, scope)

----------------------------------------------------------------------------
(* Policy Registry and launched policies (PolicyManager) *)

\* the policy definitions discovered under policies/ that the model uses
\* policies/s3_bucket_public.py; evaluator tells whether the policy's module
\* holds an evaluator class
S3BucketPublic ==
    [policy_id |-> "S3BucketPublic", service |-> "s3", severity |-> 90,
     evaluator |-> TRUE]

\* policies/s3_bucket_versioning.py: a definition and no evaluator class
S3BucketVersioningDisabled ==
    [policy_id |-> "S3BucketVersioningDisabled", service |-> "s3", severity |-> 60,
     evaluator |-> FALSE]

PolicyDefinitions ==
    [S3BucketPublic |-> S3BucketPublic,
     S3BucketVersioningDisabled |-> S3BucketVersioningDisabled]

\* the policies that have an evaluator class
PolicyIds == {p \in DOMAIN PolicyDefinitions : PolicyDefinitions[p].evaluator}

\* PolicyManager.get_policy_definition
get_policy_definition(policy_id) == PolicyDefinitions[policy_id]

\* PolicyManager._deserialize_launched_policy
_deserialize_launched_policy(item) ==
    [policy_id |-> item.PolicyId,
     service |-> get_policy_definition(item.PolicyId).service,
     severity |-> IF "Severity" \in DOMAIN item THEN item.Severity
                  ELSE get_policy_definition(item.PolicyId).severity,
     scope |-> item.Scope,
     status |-> item.Status]

\* PolicyManager.launch_policy: the item written by put_item
LaunchedItem(policy_id, scope, severity) ==
    IF severity = NoneValue
    THEN [PolicyId |-> policy_id, Status |-> "active", Scope |-> scope]
    ELSE [PolicyId |-> policy_id, Status |-> "active", Scope |-> scope,
          Severity |-> severity.value]

\* PolicyManager.list_launched_policies(status_filter)
list_launched_policies(table, status_filter) ==
    {p \in {_deserialize_launched_policy(table[k]) : k \in DOMAIN table} :
        status_filter = NoneValue \/ p.status = status_filter.value}

\* mutation: the status filter is not applied
get_active_policies_for_service_AnyStatus(table, service) ==
    {p \in list_launched_policies(table, NoneValue) :
        get_policy_definition(p.policy_id).service = service}

\* PolicyManager.get_active_policies_for_service
get_active_policies_for_service(table, service) ==
    {p \in list_launched_policies(table, Some("active")) :
        get_policy_definition(p.policy_id).service = service}

\* PolicyManager.create_policy_evaluator: the evaluator's (policy_id, severity, scope)
create_policy_evaluator(policy_id, launched_policy) ==
    [policy_id |-> policy_id,
     severity |-> IF launched_policy.severity # 0 THEN launched_policy.severity
                  ELSE get_policy_definition(policy_id).severity,
     scope |-> launched_policy.scope]

\* PolicyManager.get_policy_evaluator_class raises ValueError when the module
\* of the policy holds no evaluator class, and create_policy_evaluator with it
create_policy_evaluator_raises(policy_id) ==
    ~get_policy_definition(policy_id).evaluator

----------------------------------------------------------------------------
(* Evaluator Runtime (PolicyEvaluator, S3BucketPublicEvaluator) *)

\* PolicyEvaluator._persist_finding: the Findings Store after the call
_persist_finding(table, evaluator, resource_arn, account_service, compliant, evidence, describe_time_ms, now) ==
    IF compliant
    THEN close_finding(table, resource_arn, evaluator.policy_id, now)
    ELSE put_finding(table, resource_arn, evaluator.policy_id, account_service,
                     evaluator.severity, "ACTIVE", evidence, describe_time_ms)

\* the four block-public flags, each read with .get(flag, False)
IsPublic(public_access_block) ==
    \/ ~Get(public_access_block, "BlockPublicAcls", FALSE)
    \/ ~Get(public_access_block, "IgnorePublicAcls", FALSE)
    \/ ~Get(public_access_block, "BlockPublicPolicy", FALSE)
    \/ ~Get(public_access_block, "RestrictPublicBuckets", FALSE)

\* the evidence dict built by evaluate
EvidenceOf(bucket_name, public_access_block) ==
    [bucket_name |-> bucket_name,
     public_access_block_configuration |-> public_access_block,
     block_public_acls |-> Get(public_access_block, "BlockPublicAcls", FALSE),
     ignore_public_acls |-> Get(public_access_block, "IgnorePublicAcls", FALSE),
     block_public_policy |-> Get(public_access_block, "BlockPublicPolicy", FALSE),
     restrict_public_buckets |-> Get(public_access_block, "RestrictPublicBuckets", FALSE)]

\* config.get('Name') or resource_arn.split(':::')[-1]
BucketNameOf(resource_arn, config) == Get(config, "Name", resource_arn[6])

\* config.get('PublicAccessBlockConfiguration', {})
PublicAccessBlockOf(config) == Get(config, "PublicAccessBlockConfiguration", EmptyTable)

\* evaluate raises AttributeError when the stored block configuration is None
EvaluateRaises(evaluator, resource_arn, config) ==
    /\ should_evaluate_resource(get_account_from_arn(resource_arn), resource_arn, evaluator.scope)
    /\ PublicAccessBlockOf(config) = NoneValue

\* mutation: evaluate skips the scope check
evaluate_IgnoresScope(table, evaluator, resource_arn, config, describe_time_ms, now) ==
    LET pab == PublicAccessBlockOf(config) IN
    [scoped |-> TRUE, compliant |-> ~IsPublic(pab),
     finding_id |-> IF ~IsPublic(pab) THEN NoneValue
                    ELSE [id |-> <<resource_arn, evaluator.policy_id>>],
     table |-> _persist_finding(table, evaluator, resource_arn,
                                AccountServiceOf(get_account_from_arn(resource_arn), "s3"),
                                ~IsPublic(pab),
                                EvidenceOf(BucketNameOf(resource_arn, config), pab),
                                describe_time_ms, now)]

\* S3BucketPublicEvaluator.evaluate: the result dict and the Findings Store
\* after the call (defined when EvaluateRaises is false)
evaluate(table, evaluator, resource_arn, config, describe_time_ms, now) ==
    LET account_id == get_account_from_arn(resource_arn)
        pab == PublicAccessBlockOf(config)
        compliant == ~IsPublic(pab)
    IN  IF ~should_evaluate_resource(account_id, resource_arn, evaluator.scope)
        THEN [scoped |-> FALSE, compliant |-> TRUE, finding_id |-> NoneValue,
              table |-> table]
        ELSE [scoped |-> TRUE, compliant |-> compliant,
              finding_id |-> IF compliant THEN NoneValue
                             ELSE [id |-> <<resource_arn, evaluator.policy_id>>],
              table |-> _persist_finding(table, evaluator, resource_arn,
                                         AccountServiceOf(account_id, "s3"),
                                         compliant,
                                         EvidenceOf(BucketNameOf(resource_arn, config), pab),
                                         describe_time_ms, now)]

----------------------------------------------------------------------------
(* Reconciliation Path (scan_handler.scan_policy) *)

\* the counters of a sweep and the Findings Store it has produced so far
SweepStart(table) ==
    [table |-> table, processed |-> 0, skipped |-> 0, created |-> 0, closed |-> 0]

\* mutation: a resource whose evaluation raises is not counted
SweepResource_SkipUncounted(acc, evaluator, item, scan_start_ms, now) ==
    IF EvaluateRaises(evaluator, item.ARN, item.Configuration)
    THEN acc
    ELSE LET r == evaluate(acc.table, evaluator, item.ARN, item.Configuration,
                           Get(item, "DescribeTime", scan_start_ms), now)
         IN  IF ~r.scoped THEN [acc EXCEPT !.table = r.table]
             ELSE IF r.compliant
             THEN [acc EXCEPT !.table = r.table, !.closed = @ + 1, !.processed = @ + 1]
             ELSE [acc EXCEPT !.table = r.table, !.created = @ + 1, !.processed = @ + 1]

\* the body of the resource loop: one evaluate call inside its try / except
SweepResource(acc, evaluator, item, scan_start_ms, now) ==
    IF EvaluateRaises(evaluator, item.ARN, item.Configuration)
    THEN [acc EXCEPT !.skipped = @ + 1]
    ELSE LET r == evaluate(acc.table, evaluator, item.ARN, item.Configuration,
                           Get(item, "DescribeTime", scan_start_ms), now)
         IN  IF ~r.scoped THEN [acc EXCEPT !.table = r.table]
             ELSE IF r.compliant
             THEN [acc EXCEPT !.table = r.table, !.closed = @ + 1, !.processed = @ + 1]
             ELSE [acc EXCEPT !.table = r.table, !.created = @ + 1, !.processed = @ + 1]

\* InventoryManager.get_resources_by_account_service: the keys of the query
get_resources_by_account_service(table, account_service) ==
    {k \in DOMAIN table : k[1] = account_service}

\* the (account, launched policy, resource) triples a sweep visits
SweepWork(resTable, launched_policies) ==
    {<<account_id, lp, k>> :
        account_id \in CustomerAccounts, lp \in launched_policies, k \in DOMAIN resTable}

RECURSIVE SweepLoop(_, _, _, _, _)
\* the nested loops over accounts, launched policies and resources; the order
\* of the accounts and policies is that of the table scans
SweepLoop(acc, work, resTable, scan_start_ms, now) ==
    IF work = {} THEN acc
    ELSE LET w == CHOOSE x \in work : TRUE IN
         SweepLoop(SweepResource(acc, create_policy_evaluator(w[2].policy_id, w[2]),
                                 resTable[w[3]], scan_start_ms, now),
                   work \ {w}, resTable, scan_start_ms, now)

\* the launched policies a sweep processes: the optional policy_id and
\* service filters, then status == 'active'
SweepPolicies(polTable, event) ==
    {p \in list_launched_policies(polTable, NoneValue) :
        /\ ("policy_id" \in DOMAIN event => p.policy_id = event.policy_id)
        /\ ("service" \in DOMAIN event =>
               get_policy_definition(p.policy_id).service = event.service)
        /\ p.status = "active"}

\* the (account, launched policy) pairs for which create_policy_evaluator raises
FailedEvaluators(launched_policies) ==
    {<<account_id, lp>> \in CustomerAccounts \X launched_policies :
        create_policy_evaluator_raises(lp.policy_id)}

\* scan_policy: the counters it returns and the Findings Store it leaves; a
\* pair for which create_policy_evaluator raises adds one to skipped_count and
\* none of its resources is visited
scan_policy(findTable, resTable, polTable, event, now) ==
    LET launched_policies == SweepPolicies(polTable, event) IN
    SweepLoop([SweepStart(findTable) EXCEPT
                  !.skipped = Cardinality(FailedEvaluators(launched_policies))],
              {w \in SweepWork(resTable, launched_policies) :
                  /\ ~create_policy_evaluator_raises(w[2].policy_id)
                  /\ w[3] \in get_resources_by_account_service(resTable,
                              AccountServiceOf(w[1],
                                  get_policy_definition(w[2].policy_id).service))},
              resTable, now, now)

\* the events scan_policy is invoked with: optional policy_id and service
\* filters, and the scan type
ScanTypes == {"bootstrap", "anti-entropy"}
ScanEvents ==
    [scan_type : ScanTypes]
        \cup [scan_type : ScanTypes, policy_id : PolicyIds]
        \cup [scan_type : ScanTypes, service : {"s3"}]
        \cup [scan_type : ScanTypes, policy_id : PolicyIds, service : {"s3"}]

----------------------------------------------------------------------------
(* Event Ingestion Path (event_handler.process_event) *)

\* InventoryManager.get_resource_by_arn: the account is parsed from the ARN
get_resource_by_arn(table, arn) ==
    IF get_account_from_arn(arn) = "" \/ get_service_from_arn(arn) = ""
    THEN NoItem
    ELSE ItemOf(table, ResKey(get_account_from_arn(arn), get_service_from_arn(arn), arn))

\* normalize of _configs_differ: drop the volatile fields
Normalize(c) ==
    [k \in DOMAIN c \ {"LastSeenAt", "Metadata", "LastModified"} |-> c[k]]

\* event_handler._configs_differ (old_config is NoItem when there is none)
_configs_differ(old_config, new_config) ==
    IF old_config = NoItem THEN TRUE
    ELSE Normalize(old_config) # Normalize(new_config)

\* the position of a launched policy in the result of the table scan; the
\* handlers' results do not depend on it, each policy writing its own findings
ScanPosition ==
    [S3BucketVersioningDisabled |-> 1, S3BucketPublic |-> 2]

\* the launched policy the table scan returns first
FirstScanned(launched_policies) ==
    CHOOSE x \in launched_policies :
        \A y \in launched_policies :
            ScanPosition[x.policy_id] <= ScanPosition[y.policy_id]

\* mutation: an exception of one policy ends the policy loop
PolicyLoopContinues_OnlySuccess(raised) == ~raised

\* the except clause of the policy loop logs the exception; the loop goes on
PolicyLoopContinues(raised) == TRUE

RECURSIVE EvaluationLoop(_, _, _, _, _, _)
\* the policy loop of process_event: every active policy of the service is
\* evaluated with the same configuration and describe time; creating the
\* evaluator or evaluating may raise inside the try block of the loop body
EvaluationLoop(table, service_policies, resource_arn, new_config, describe_time_ms, now) ==
    IF service_policies = {} THEN table
    ELSE LET policy == FirstScanned(service_policies)
             evaluator == create_policy_evaluator(policy.policy_id, policy)
             raised == \/ create_policy_evaluator_raises(policy.policy_id)
                       \/ EvaluateRaises(evaluator, resource_arn, new_config)
             after == IF raised THEN table
                      ELSE evaluate(table, evaluator, resource_arn, new_config,
                                    describe_time_ms, now).table
         IN  IF PolicyLoopContinues(raised)
             THEN EvaluationLoop(after, service_policies \ {policy}, resource_arn,
                                 new_config, describe_time_ms, now)
             ELSE after

\* the describe capability raised
DescribeFailed == [failed |-> TRUE]

\* what the describe capability answers: a configuration, or a failure
DescribeResults == Configs \cup {DescribeFailed}

----------------------------------------------------------------------------
(* System specification: the handlers, one action per unit of work *)

\* the value of last before any operation
NoOp == [op |-> "none"]

Init ==
    /\ resources = EmptyTable
    /\ findings = EmptyTable
    /\ policies = EmptyTable
    /\ last = NoOp
    /\ inflight = {}
    /\ CacheIdle

\* the body of process_event's record loop for one notification record: the
\* two stores after it, how it ended and the calls it made; now is the wall
\* clock that close_finding reads, after describe_time_ms was taken
process_event(resTable, findTable, polTable, resource_arn, event_time, described, describe_time_ms, now) ==
    LET account_id == get_account_from_arn(resource_arn)
        service == get_service_from_arn(resource_arn)
        existing_resource == get_resource_by_arn(resTable, resource_arn)
        stale == existing_resource # NoItem /\ event_time <= existing_resource.LastSeenAt
        existing_config == IF existing_resource # NoItem
                           THEN existing_resource.Configuration ELSE NoItem
        service_policies == get_active_policies_for_service(polTable, service)
    IN  IF stale
        THEN [resources |-> resTable, findings |-> findTable,
              outcome |-> "stale", calls |-> {}]
        ELSE IF described = DescribeFailed
        THEN [resources |-> resTable, findings |-> findTable,
              outcome |-> "describe_failed", calls |-> {"describe"}]
        ELSE IF ~_configs_differ(existing_config, described)
        THEN [resources |-> resTable, findings |-> findTable,
              outcome |-> "unchanged", calls |-> {"describe"}]
        ELSE [resources |-> upsert_resource(resTable, account_id, service,
                                            resource_arn, described, describe_time_ms),
              findings |-> EvaluationLoop(findTable, service_policies, resource_arn,
                                          described, describe_time_ms, now),
              outcome |-> "evaluated",
              calls |-> {"describe", "upsert_resource"}
                           \cup (IF service_policies = {} THEN {} ELSE {"evaluate"})]

\* process_event for one notification record
ProcessEvent(resource_arn, event_time, described, describe_time_ms, now) ==
    LET r == process_event(resources, findings, policies, resource_arn, event_time,
                           described, describe_time_ms, now) IN
    /\ resources' = r.resources
    /\ findings' = r.findings
    /\ last' = [op |-> "process_event", outcome |-> r.outcome]
    /\ UNCHANGED <<policies, inflight, summary, readers, clock>>

\* what list_resources answers for an account: some buckets with their
\* configurations
Listings == UNION {[A -> Configs] : A \in SUBSET Arns}

RECURSIVE UpsertListing(_, _, _, _, _)
UpsertListing(table, account_id, service, listing, describe_time_ms) ==
    IF DOMAIN listing = {} THEN table
    ELSE LET arn == CHOOSE a \in DOMAIN listing : TRUE IN
         UpsertListing(upsert_resource(table, account_id, service, arn,
                                       listing[arn], describe_time_ms),
                       account_id, service,
                       [a \in DOMAIN listing \ {arn} |-> listing[a]], describe_time_ms)

\* inventory_handler.generate_inventory_for_account_service, fresh scan
GenerateInventory(account_id, service, listing, describe_time_ms) ==
    /\ resources' = UpsertListing(resources, account_id, service, listing, describe_time_ms)
    /\ last' = [op |-> "generate_inventory"]
    /\ UNCHANGED <<findings, policies, inflight, summary, readers, clock>>

\* scopes a policy is launched with
ScopeChoices == {EmptyScope, [EmptyScope EXCEPT !.include_accounts = {"111"}]}

\* severity overrides a policy is launched with
SeverityChoices == {NoneValue, Some(50)}

\* policies_api.handle_launch_policy / PolicyManager.launch_policy
LaunchPolicy(policy_id, scope, severity) ==
    /\ policies' = PutItem(policies, policy_id, LaunchedItem(policy_id, scope, severity))
    /\ last' = [op |-> "handle_launch_policy"]
    /\ UNCHANGED <<resources, findings, inflight, summary, readers, clock>>

\* scan_handler.scan_policy; after_scan records that the operation before
\* this one was a full sweep, so that nothing changed in between
ScanPolicy(event, now) ==
    LET r == scan_policy(findings, resources, policies, event, now) IN
    /\ findings' = r.table
    /\ last' = [op |-> "scan_policy",
                full |-> DOMAIN event = {"scan_type"},
                after_scan |-> last.op = "scan_policy" /\ last.full,
                processed |-> r.processed, skipped |-> r.skipped,
                created |-> r.created, closed |-> r.closed]
    /\ UNCHANGED <<resources, policies, inflight, summary, readers, clock>>

\* policies_api.handle_delete_policy
HandleDeletePolicy(policy_id, now_ms, scanFails, failing) ==
    LET purge == purge_findings_for_policy(findings, policy_id, now_ms, scanFails, failing) IN
    /\ IF ~HasItem(policies, policy_id)
       THEN /\ UNCHANGED <<findings, policies, summary, readers, clock>>
            /\ last' = [op |-> "handle_delete_policy", policy_id |-> policy_id,
                        raised |-> "NotFoundError", resolveFailed |-> FALSE]
       ELSE IF purge.raised
       THEN /\ UNCHANGED <<findings, policies, summary, readers, clock>>
            /\ last' = [op |-> "handle_delete_policy", policy_id |-> policy_id,
                        raised |-> "Exception", resolveFailed |-> TRUE]
       ELSE /\ findings' = purge.table
            /\ policies' = DeleteItem(policies, policy_id)
            /\ last' = [op |-> "handle_delete_policy", policy_id |-> policy_id,
                        raised |-> "none", resolveFailed |-> failing # {}]
    /\ UNCHANGED <<resources, inflight, summary, readers, clock>>

\* the event times that make a difference: the event time is read only when
\* a record of the resource is found
EventTimes(arn, describe_time_ms) ==
    IF get_resource_by_arn(resources, arn) = NoItem THEN {describe_time_ms} ELSE Stamps

Next ==
    \/ \E arn \in Arns, described \in DescribeResults, t \in Stamps :
          \E event_time \in EventTimes(arn, t), now \in t..MaxStamp :
             ProcessEvent(arn, event_time, described, t, now)
    \/ \E account_id \in CustomerAccounts, listing \in Listings, t \in Stamps :
           GenerateInventory(account_id, "s3", listing, t)
    \/ \E p \in PolicyIds, scope \in ScopeChoices, severity \in SeverityChoices :
           LaunchPolicy(p, scope, severity)
    \/ \E event \in ScanEvents, now \in Stamps : ScanPolicy(event, now)
    \/ \E p \in PolicyIds, now \in Stamps, scanFails \in BOOLEAN :
          \E failing \in SUBSET PurgeScan(findings, p) :
             HandleDeletePolicy(p, now, scanFails, failing)

Spec == Init /\ [][Next]_vars

----------------------------------------------------------------------------
(* Store-level specification: direct calls of the Resource Store writes *)

InitStore ==
    /\ resources = EmptyTable
    /\ findings = EmptyTable
    /\ policies = EmptyTable
    /\ last = NoOp
    /\ inflight = {}
    /\ CacheIdle

\* mutation: a plain put that stamps LastSeenAt with the wall clock
UpsertResource_PlainPut(account_id, arn, configuration, t) ==
    LET service == get_service_from_arn(arn)
        key == ResKey(account_id, service, arn) IN
    /\ \E now \in WallClock :
          resources' = PutItem(resources, key,
                               [ResourceItem(account_id, service, arn, configuration, t)
                                   EXCEPT !.LastSeenAt = now])
    /\ last' = [op |-> "upsert_resource", key |-> key, config |-> configuration, t |-> t,
                pre |-> ItemOf(resources, key),
                repeat |-> /\ last.op = "upsert_resource"
                           /\ last.key = key /\ last.config = configuration /\ last.t = t,
                raised |-> FALSE]
    /\ UNCHANGED <<findings, policies, inflight, summary, readers, clock>>

UpsertResource(account_id, arn, configuration, t) ==
    LET service == get_service_from_arn(arn)
        key == ResKey(account_id, service, arn) IN
    /\ resources' = upsert_resource(resources, account_id, service, arn, configuration, t)
    /\ last' = [op |-> "upsert_resource", key |-> key, config |-> configuration, t |-> t,
                pre |-> ItemOf(resources, key),
                repeat |-> /\ last.op = "upsert_resource"
                           /\ last.key = key /\ last.config = configuration /\ last.t = t,
                raised |-> upsert_resource_raises(resources, account_id, service, arn, t)]
    /\ UNCHANGED <<findings, policies, inflight, summary, readers, clock>>

BulkUpsertResources(items) ==
    /\ resources' = bulk_upsert_resources(resources, items)
    /\ last' = [op |-> "bulk_upsert_resources",
                pre |-> [i \in 1..Len(items) |->
                            ItemOf(resources, <<items[i].AccountService, items[i].ARN>>)],
                items |-> items]
    /\ UNCHANGED <<findings, policies, inflight, summary, readers, clock>>

DeleteResource(arn, account_id) ==
    /\ resources' = delete_resource(resources, arn, account_id)
    /\ last' = [op |-> "delete_resource",
                key |-> ResKey(account_id, get_service_from_arn(arn), arn)]
    /\ UNCHANGED <<findings, policies, inflight, summary, readers, clock>>

\* direct calls of the Findings Store writes
PutFinding(arn, policy_id, severity, state, evidence, t) ==
    LET key == FindingKey(arn, policy_id) IN
    /\ findings' = put_finding(findings, arn, policy_id,
                               AccountServiceOf(get_account_from_arn(arn), get_service_from_arn(arn)),
                               severity, state, evidence, t)
    /\ last' = [op |-> "put_finding", key |-> key, severity |-> severity, state |-> state,
                evidence |-> evidence, t |-> t,
                pre |-> ItemOf(findings, key),
                repeat |-> /\ last.op = "put_finding"
                           /\ last.key = key /\ last.severity = severity
                           /\ last.state = state /\ last.evidence = evidence /\ last.t = t]
    /\ UNCHANGED <<resources, policies, inflight, summary, readers, clock>>

CloseFinding(arn, policy_id, now) ==
    /\ findings' = close_finding(findings, arn, policy_id, now)
    /\ last' = [op |-> "close_finding", key |-> FindingKey(arn, policy_id),
                pre |-> ItemOf(findings, FindingKey(arn, policy_id))]
    /\ UNCHANGED <<resources, policies, inflight, summary, readers, clock>>

Severities == {50, 90}

Evidences == {EvidenceOf("b1", c.PublicAccessBlockConfiguration) :
                 c \in {PrivateConfig, PublicConfig}}

PurgeFindingsForPolicy(policy_id, now_ms, scanFails, failing) ==
    LET r == purge_findings_for_policy(findings, policy_id, now_ms, scanFails, failing) IN
    /\ findings' = r.table
    /\ last' = [op |-> "purge_findings_for_policy", policy_id |-> policy_id,
                pre |-> findings, purged_count |-> r.purged_count, raised |-> r.raised]
    /\ UNCHANGED <<resources, policies, inflight, summary, readers, clock>>

ResourceItems ==
    {ResourceItem(acct, get_service_from_arn(arn), arn, c, t) :
        acct \in StoreAccounts, arn \in Arns, c \in Configs, t \in Times}

\* batches of well-formed items with pairwise distinct keys
Batches ==
    {b \in UNION {[1..n -> ResourceItems] : n \in 1..MaxBatch} :
        \A i, j \in 1..Len(b) :
            i # j => <<b[i].AccountService, b[i].ARN>> # <<b[j].AccountService, b[j].ARN>>}

NextResources ==
    \/ \E acct \in StoreAccounts, arn \in Arns, c \in Configs, t \in Times :
           UpsertResource(acct, arn, c, t)
    \/ \E items \in Batches : BulkUpsertResources(items)
    \/ \E acct \in StoreAccounts, arn \in Arns : DeleteResource(arn, acct)

NextFindings ==
    \/ \E arn \in Arns, p \in PolicyIds, sev \in Severities,
          st \in {"ACTIVE", "RESOLVED"}, ev \in Evidences, t \in Times :
           PutFinding(arn, p, sev, st, ev, t)
    \/ \E arn \in Arns, p \in PolicyIds, now \in WallClock : CloseFinding(arn, p, now)
    \/ \E p \in PolicyIds, now \in WallClock, scanFails \in BOOLEAN :
          \E failing \in SUBSET PurgeScan(findings, p) :
             PurgeFindingsForPolicy(p, now, scanFails, failing)

\* The two tables are separate and no data-access write touches both, so a
\* behaviour exercises one of them
NextStore ==
    \/ findings = EmptyTable /\ NextResources
    \/ resources = EmptyTable /\ NextFindings

SpecStore == InitStore /\ [][NextStore]_vars

----------------------------------------------------------------------------
(* Concurrent writers of one resource identity.  Each upsert_resource call  *)
(* is a single conditional update_item, which the table applies atomically, *)
(* so an interleaving of the calls is an order of arrival.                  *)

RaceAccount == "111"
RaceArn == S3Arn("b1")
RaceKey == ResKey(RaceAccount, get_service_from_arn(RaceArn), RaceArn)

\* an upsert_resource call: its configuration and describe_time_ms
Calls == [config : Configs, t : Times]

PairwiseDistinctTimes(S) == \A c, d \in S : c # d => c.t # d.t

\* the Resource Store before the writers start: empty, or holding a record
\* older than every call
OlderRecord == ResourceItem(RaceAccount, get_service_from_arn(RaceArn), RaceArn, PrivateConfig, 0)

InitRace ==
    /\ resources \in {EmptyTable, PutItem(EmptyTable, RaceKey, OlderRecord)}
    /\ findings = EmptyTable
    /\ policies = EmptyTable
    /\ inflight \in {S \in SUBSET Calls : S # {} /\ PairwiseDistinctTimes(S)}
    /\ last = [op |-> "race", calls |-> inflight, arrived |-> <<>>]
    /\ CacheIdle

UpsertArrives(c) ==
    /\ c \in inflight
    /\ resources' = upsert_resource(resources, RaceAccount, get_service_from_arn(RaceArn),
                                    RaceArn, c.config, c.t)
    /\ inflight' = inflight \ {c}
    /\ last' = [last EXCEPT !.arrived = Append(@, c)]
    /\ UNCHANGED <<findings, policies, summary, readers, clock>>

NextRace == \E c \in Calls : UpsertArrives(c)

SpecRace == InitRace /\ [][NextRace]_vars

\* the call with the highest describe time
Newest(S) == CHOOSE c \in S : \A d \in S : d.t <= c.t

\* C2: for concurrent upsert_resource calls on one identity with pairwise
\* distinct observed times, whatever the order of arrival, the final record
\* carries the configuration and observed time of the newest call.
C2_NewestWriterWins ==
    (last.op = "race" /\ inflight = {}) =>
        /\ HasItem(resources, RaceKey)
        /\ resources[RaceKey].Configuration = Newest(last.calls).config
        /\ resources[RaceKey].DescribeTime = Newest(last.calls).t

\* all calls have arrived and the newest one was not the last to arrive
C2_Witness ==
    /\ last.op = "race"
    /\ inflight = {}
    /\ Len(last.arrived) >= 2
    /\ last.arrived[Len(last.arrived)] # Newest(last.calls)
    /\ last.arrived[Len(last.arrived)].config # Newest(last.calls).config

----------------------------------------------------------------------------
(* Evaluations of one (resource, policy) pair persisted in any order.  A     *)
(* _persist_finding call makes one Findings Store write (close_finding or   *)
(* put_finding), so an interleaving is an order of arrival.                 *)

PersistArn == S3Arn("b1")
PersistPolicy == "S3BucketPublic"
PersistKey == FindingKey(PersistArn, PersistPolicy)

\* the evaluator of the policy launched with no overrides
PersistEvaluator ==
    create_policy_evaluator(PersistPolicy,
        _deserialize_launched_policy(LaunchedItem(PersistPolicy, EmptyScope, NoneValue)))

\* an evaluation: its verdict and the describe_time_ms it carries
Evaluations == [compliant : BOOLEAN, t : Times]

IsActive(table, key) ==
    /\ HasItem(table, key)
    /\ "State" \in DOMAIN table[key]
    /\ table[key].State = "ACTIVE"

InitPersist ==
    /\ resources = EmptyTable
    /\ findings = EmptyTable
    /\ policies = EmptyTable
    /\ inflight \in {S \in SUBSET Evaluations :
                        /\ PairwiseDistinctTimes(S)
                        /\ \E e \in S : e.compliant
                        /\ \E e \in S : ~e.compliant}
    /\ last = [op |-> "persist", evals |-> inflight, arrived |-> <<>>]
    /\ CacheIdle

PersistArrives(e, now) ==
    /\ e \in inflight
    /\ findings' = _persist_finding(findings, PersistEvaluator, PersistArn,
                                    AccountServiceOf(get_account_from_arn(PersistArn), "s3"),
                                    e.compliant,
                                    EvidenceOf("b1", IF e.compliant
                                                     THEN PrivateConfig.PublicAccessBlockConfiguration
                                                     ELSE PublicConfig.PublicAccessBlockConfiguration),
                                    e.t, now)
    /\ inflight' = inflight \ {e}
    /\ last' = [last EXCEPT !.arrived = Append(@, e)]
    /\ UNCHANGED <<resources, policies, summary, readers, clock>>

NextPersist == \E e \in Evaluations, now \in WallClock : PersistArrives(e, now)

SpecPersist == InitPersist /\ [][NextPersist]_vars

\* C3: for evaluations of one (resource, policy) pair with pairwise distinct
\* observed times, persisted through _persist_finding in any order, the final
\* finding is ACTIVE exactly when the newest evaluation is non-compliant.
C3_NewestVerdictWins ==
    (last.op = "persist" /\ inflight = {}) =>
        (IsActive(findings, PersistKey) <=> ~Newest(last.evals).compliant)

----------------------------------------------------------------------------
(* Claims about the Resource Store and Findings Store writes (SpecStore) *)

\* C1: upsert_resource replaces the stored configuration and sets DescribeTime
\* and LastSeenAt to t exactly when no record exists or the stored DescribeTime
\* is strictly less than t; otherwise the record is unchanged and the call
\* does not raise.
C1_UpsertAppliesIffNewer ==
    last.op = "upsert_resource" =>
        /\ ~last.raised
        /\ IF last.pre = NoItem \/ last.pre.DescribeTime < last.t
           THEN /\ HasItem(resources, last.key)
                /\ resources[last.key].Configuration = last.config
                /\ resources[last.key].DescribeTime = last.t
                /\ resources[last.key].LastSeenAt = last.t
           ELSE ItemOf(resources, last.key) = last.pre

\* an upsert at the stored describe time with a different configuration
C1_Witness ==
    /\ last.op = "upsert_resource"
    /\ last.pre # NoItem
    /\ last.pre.DescribeTime = last.t
    /\ last.pre.Configuration # last.config
    /\ resources[last.key] = last.pre

\* C9: applying the same upsert_resource or the same put_finding twice leaves
\* the store as it was after the first application.
C9_IdenticalUpsertTwice ==
    /\ (last.op = "upsert_resource" /\ last.repeat)
           => ItemOf(resources, last.key) = last.pre
    /\ (last.op = "put_finding" /\ last.repeat)
           => ItemOf(findings, last.key) = last.pre

\* the second of two identical upserts, the first of which was applied
C9_Witness ==
    /\ last.op = "upsert_resource"
    /\ last.repeat
    /\ last.pre # NoItem
    /\ last.pre.DescribeTime = last.t
    /\ last.pre.Configuration = last.config

\* C10: while a resource record exists its stored DescribeTime never decreases
\* over writes made through upsert_resource and bulk_upsert_resources.
C10_DescribeTimeMonotonic ==
    [][\A k \in DOMAIN resources \cap DOMAIN resources' :
          resources'[k].DescribeTime >= resources[k].DescribeTime]_vars

----------------------------------------------------------------------------
(* Claims about the handlers (Spec) *)

\* whether the stored configuration of a bucket is non-compliant
NonCompliant(config) == IsPublic(PublicAccessBlockOf(config))

\* the resource records a sweep reads: those stored under a customer account
SweptRecords(service) ==
    UNION {get_resources_by_account_service(resources, AccountServiceOf(a, service)) :
              a \in CustomerAccounts}

\* C4: once a full scan_policy sweep has finished with zero skipped
\* resources, for every active launched policy and every in-scope resource
\* stored under a customer account, the finding of the pair is ACTIVE exactly
\* when the stored configuration is non-compliant.
C4_SweepRestoresFindings ==
    (last.op = "scan_policy" /\ last.full /\ last.skipped = 0) =>
        \A p \in list_launched_policies(policies, Some("active")) :
            \A k \in SweptRecords(get_policy_definition(p.policy_id).service) :
                should_evaluate_resource(get_account_from_arn(k[2]), k[2], p.scope) =>
                    (IsActive(findings, FindingKey(k[2], p.policy_id))
                        <=> NonCompliant(resources[k].Configuration))

\* the orders in which the stored resources can be visited
Orders(S) ==
    {o \in [1..Cardinality(S) -> S] : \A i, j \in DOMAIN o : o[i] = o[j] => i = j}

RECURSIVE EvaluationLoopOver(_, _, _, _, _)
\* the event path's evaluation loop run on the stored resources in order o,
\* each with its stored configuration and DescribeTime
EvaluationLoopOver(table, o, resTable, polTable, now) ==
    IF o = <<>> THEN table
    ELSE LET item == resTable[Head(o)] IN
         EvaluationLoopOver(
             EvaluationLoop(table,
                 get_active_policies_for_service(polTable, Head(o)[1][2]),
                 item.ARN, item.Configuration, item.DescribeTime, now),
             Tail(o), resTable, polTable, now)

\* C5: a full scan_policy sweep leaves the Findings Store in the state that
\* the event path's evaluation loop, run on every stored resource with its
\* stored configuration and DescribeTime, leaves it in.
C5_SweepEqualsEvaluationLoop ==
    [][(last'.op = "scan_policy" /\ last'.full) =>
          \E now \in Stamps : \E o \in Orders(DOMAIN resources) :
              findings' = EvaluationLoopOver(findings, o, resources, policies, now)]_vars

\* C7: when resolving the findings fails during a deletion (the scan raises
\* or a single finding update fails), the LaunchedPolicy record is still there.
C7_FailedResolveKeepsPolicy ==
    (last.op = "handle_delete_policy" /\ last.resolveFailed) =>
        HasItem(policies, last.policy_id)

\* C8: a successful delete leaves every finding of the policy that was ACTIVE
\* with State = RESOLVED and ResolvedReason = POLICY_SUSPENDED, and deletes no
\* finding.
C8_DeleteResolvesEveryFinding ==
    [][(last'.op = "handle_delete_policy" /\ last'.raised = "none") =>
          /\ DOMAIN findings \subseteq DOMAIN findings'
          /\ \A k \in PurgeScan(findings, last'.policy_id) :
                /\ findings'[k].State = "RESOLVED"
                /\ "ResolvedReason" \in DOMAIN findings'[k]
                /\ findings'[k].ResolvedReason = "POLICY_SUSPENDED"]_vars

----------------------------------------------------------------------------
(* Summary caches: get_findings_summary, get_resources_summary and
   get_dashboard_summary read under concurrency (SpecCache) *)

\* concurrent readers of the cache key
MaxReaders == 2
Readers == 1..MaxReaders

\* times the clock is advanced in a behaviour
MaxAdvances == 2

findings_max_age_minutes == 15
findings_lock_ttl_seconds == 30
findings_sleep_seconds == 1
resources_max_age_minutes == 15
resources_lock_ttl_seconds == 60
dashboard_max_age_hours == 1
dashboard_lock_ttl_seconds == 60
dashboard_sleep_seconds == 2
SecondsPerMinute == 60
SecondsPerHour == 3600

CacheKinds == {"findings", "resources", "dashboard"}

\* the age below which _is_fresh answers True, in seconds
MaxAgeSeconds(kind) ==
    CASE kind = "findings" -> findings_max_age_minutes * SecondsPerMinute
      [] kind = "resources" -> resources_max_age_minutes * SecondsPerMinute
      [] kind = "dashboard" -> dashboard_max_age_hours * SecondsPerHour

\* ttl_seconds handed to _try_acquire_lock
LockTtlSeconds(kind) ==
    CASE kind = "findings" -> findings_lock_ttl_seconds
      [] kind = "resources" -> resources_lock_ttl_seconds
      [] kind = "dashboard" -> dashboard_lock_ttl_seconds

\* whole seconds the clock has moved when time.sleep returns (the half second
\* of get_resources_summary need not move it)
SleepSeconds(kind) ==
    CASE kind = "findings" -> findings_sleep_seconds
      [] kind = "resources" -> 0
      [] kind = "dashboard" -> dashboard_sleep_seconds

\* _is_fresh
_is_fresh(cached, max_age_seconds, now) == now - cached.updated_at < max_age_seconds

\* the ConditionExpression of _try_acquire_lock
LockCondition(table, now) ==
    \/ ~HasItem(table, "lock")
    \/ table["lock"].expires_at < now

\* _try_acquire_lock: the table after the conditional put_item
_try_acquire_lock(table, ttl_seconds, now) ==
    IF LockCondition(table, now)
    THEN PutItem(table, "lock", [expires_at |-> now + ttl_seconds])
    ELSE table

\* _release_lock
_release_lock(table) == DeleteItem(table, "lock")

\* _save_summary
_save_summary(table, value, now) ==
    PutItem(table, "cache", [updated_at |-> now, summary |-> value])

\* a reader that has not started, and one that has returned
ReaderStart ==
    [pc |-> "start", cached |-> NoItem, lock_acquired |-> FALSE, wake_at |-> 0,
     value |-> 0, returned |-> "nothing"]

ReaderDone(how) ==
    [pc |-> "done", cached |-> NoItem, lock_acquired |-> FALSE, wake_at |-> 0,
     value |-> 0, returned |-> how]

\* a reader that has returned a summary value
ReaderReturned(how, value) == [ReaderDone(how) EXCEPT !.value = value]

\* mutation: a reader refused the lock sleeps even when it has a cached entry
AfterLockRefused_AlwaysSleeps(reader, kind, now) ==
    [reader EXCEPT !.pc = "sleep", !.wake_at = now + SleepSeconds(kind)]

\* if not lock_acquired: a reader that has a cached entry returns its summary,
\* one that has none calls time.sleep
AfterLockRefused(reader, kind, now) ==
    IF reader.cached # NoItem
    THEN ReaderReturned("stale", reader.cached.summary)
    ELSE [reader EXCEPT !.pc = "sleep", !.wake_at = now + SleepSeconds(kind)]

\* mutation: after the sleep a reader that finds no entry tries the lock again
AfterWake_RetriesLock(reader, table) ==
    IF HasItem(table, "cache")
    THEN ReaderReturned("retried", table["cache"].summary)
    ELSE [reader EXCEPT !.pc = "lock", !.wake_at = 0]

\* after time.sleep the cache is read again: an entry found is returned,
\* otherwise the reader goes on to compute without the lock
AfterWake(reader, table) ==
    IF HasItem(table, "cache")
    THEN ReaderReturned("retried", table["cache"].summary)
    ELSE [reader EXCEPT !.pc = "compute", !.wake_at = 0]

\* the cache entry before the readers arrive: absent, stale or fresh
InitialEntries(kind) ==
    {EmptyTable,
     _save_summary(EmptyTable, 0, 0),
     _save_summary(EmptyTable, 0, MaxAgeSeconds(kind))}

InitCache ==
    /\ resources = EmptyTable
    /\ findings = EmptyTable
    /\ policies = EmptyTable
    /\ inflight = {}
    /\ \E kind \in CacheKinds :
          /\ last = [op |-> "cache", kind |-> kind, computed |-> {}, advances |-> 0,
                      owner |-> 0]
          /\ clock = MaxAgeSeconds(kind)
          /\ summary \in InitialEntries(kind)
    /\ readers = [r \in Readers |-> ReaderStart]

\* cached = _get_cached_summary(); a fresh entry is returned
ReadCache(r) ==
    /\ readers[r].pc = "start"
    /\ LET cached == ItemOf(summary, "cache") IN
       readers' = [readers EXCEPT ![r] =
           IF cached # NoItem /\ _is_fresh(cached, MaxAgeSeconds(last.kind), clock)
           THEN ReaderReturned("fresh", cached.summary)
           ELSE [@ EXCEPT !.pc = "lock", !.cached = cached]]
    /\ UNCHANGED <<resources, findings, policies, last, inflight, summary, clock>>

\* lock_acquired = _try_acquire_lock(...); without the lock a reader that has
\* a cached entry returns it, one that has none goes to sleep
\* (last.owner remembers the reader whose put_item wrote the lock record)
TryAcquireLock(r) ==
    /\ readers[r].pc = "lock"
    /\ summary' = _try_acquire_lock(summary, LockTtlSeconds(last.kind), clock)
    /\ readers' = [readers EXCEPT ![r] =
           IF LockCondition(summary, clock)
           THEN [@ EXCEPT !.pc = "compute", !.lock_acquired = TRUE, !.cached = NoItem]
           ELSE AfterLockRefused(@, last.kind, clock)]
    /\ last' = IF LockCondition(summary, clock) THEN [last EXCEPT !.owner = r] ELSE last
    /\ UNCHANGED <<resources, findings, policies, inflight, clock>>

\* time.sleep returns; the cache is read again and an entry found is returned,
\* otherwise the reader goes on to compute without the lock
Wake(r) ==
    /\ readers[r].pc = "sleep"
    /\ clock >= readers[r].wake_at
    /\ readers' = [readers EXCEPT ![r] = AfterWake(@, summary)]
    /\ UNCHANGED <<resources, findings, policies, last, inflight, summary, clock>>

\* summary = _compute_summary(): one recomputation from the stores
Compute(r) ==
    /\ readers[r].pc = "compute"
    /\ readers' = [readers EXCEPT ![r] = [@ EXCEPT !.pc = "save", !.value = clock]]
    /\ last' = [last EXCEPT !.computed = @ \cup {[reader |-> r, at |-> clock]}]
    /\ UNCHANGED <<resources, findings, policies, inflight, summary, clock>>

\* _save_summary(summary), by a lock holder or not
Save(r) ==
    /\ readers[r].pc = "save"
    /\ summary' = _save_summary(summary, readers[r].value, clock)
    /\ readers' = [readers EXCEPT ![r] =
           IF @.lock_acquired THEN [@ EXCEPT !.pc = "release"]
           ELSE ReaderReturned("computed", @.value)]
    /\ UNCHANGED <<resources, findings, policies, last, inflight, clock>>

\* if lock_acquired: _release_lock(); return summary
Release(r) ==
    /\ readers[r].pc = "release"
    /\ summary' = _release_lock(summary)
    /\ readers' = [readers EXCEPT ![r] = ReaderReturned("computed", @.value)]
    /\ UNCHANGED <<resources, findings, policies, last, inflight, clock>>

\* the amounts of time that pass between two steps
AdvanceSteps(kind) == {1, LockTtlSeconds(kind) + 1, MaxAgeSeconds(kind)}

Advance(d) ==
    /\ last.advances < MaxAdvances
    /\ clock' = clock + d
    /\ last' = [last EXCEPT !.advances = @ + 1]
    /\ UNCHANGED <<resources, findings, policies, inflight, summary, readers>>

NextCache ==
    \/ \E r \in Readers : ReadCache(r)
    \/ \E r \in Readers : TryAcquireLock(r)
    \/ \E r \in Readers : Wake(r)
    \/ \E r \in Readers : Compute(r)
    \/ \E r \in Readers : Save(r)
    \/ \E r \in Readers : Release(r)
    \/ \E d \in AdvanceSteps(last.kind) : Advance(d)

SpecCache == InitCache /\ [][NextCache]_vars

\* C6: over the concurrent readers of one cache key, any two recomputations
\* from the stores are at least one TTL apart, whether the entry started
\* absent, stale or fresh.
C6_OneRecomputationPerWindow ==
    last.op = "cache" =>
        \A e1, e2 \in last.computed :
            (e1 # e2 /\ e1.at <= e2.at) => e2.at - e1.at >= MaxAgeSeconds(last.kind)

----------------------------------------------------------------------------
(* Claims about the Findings Store calls (SpecStore) *)

\* C11: a finding record that has a FirstSeen keeps the record and that
\* FirstSeen over every put_finding, close_finding and
\* purge_findings_for_policy call.
C11_FirstSeenPreserved ==
    [][\A k \in DOMAIN findings :
          "FirstSeen" \in DOMAIN findings[k] =>
              /\ k \in DOMAIN findings'
              /\ "FirstSeen" \in DOMAIN findings'[k]
              /\ findings'[k].FirstSeen = findings[k].FirstSeen]_vars

\* a put_finding with a describe time other than the stored FirstSeen was
\* accepted on a record that had a FirstSeen
C11_Witness ==
    /\ last.op = "put_finding"
    /\ last.pre # NoItem
    /\ "FirstSeen" \in DOMAIN last.pre
    /\ last.pre.DescribeTime < last.t
    /\ last.pre.FirstSeen # last.t
    /\ findings[last.key].DescribeTime = last.t
    /\ findings[last.key].FirstSeen = last.pre.FirstSeen

----------------------------------------------------------------------------
(* Claims about persisted evaluations (SpecPersist) *)

\* C12: when the first evaluation persisted for a pair that has no finding
\* record is compliant, the Findings Store still holds no record.
C12_CompliantCreatesNoRecord ==
    (last.op = "persist" /\ Len(last.arrived) = 1 /\ last.arrived[1].compliant) =>
        findings = EmptyTable

\* C13: persisting a compliant evaluation whose describe time is later than
\* the DescribeTime of an ACTIVE finding makes the finding RESOLVED and leaves
\* its FirstSeen as it was.
C13_LaterCompliantResolves ==
    [][\A e \in inflight :
          (/\ e \notin inflight'
           /\ e.compliant
           /\ IsActive(findings, PersistKey)
           /\ findings[PersistKey].DescribeTime < e.t)
          => /\ findings'[PersistKey].State = "RESOLVED"
             /\ findings'[PersistKey].FirstSeen = findings[PersistKey].FirstSeen]_vars

\* a non-compliant evaluation was persisted and then a later compliant one
C13_Witness ==
    /\ last.op = "persist"
    /\ Len(last.arrived) = 2
    /\ ~last.arrived[1].compliant
    /\ last.arrived[2].compliant
    /\ last.arrived[1].t < last.arrived[2].t
    /\ findings[PersistKey].State = "RESOLVED"
    /\ findings[PersistKey].FirstSeen = last.arrived[1].t

\* C14: persisting a non-compliant evaluation whose describe time is later
\* than that of every evaluation persisted before it makes a RESOLVED finding
\* ACTIVE again and keeps the FirstSeen the record had.
C14_LaterRegressionReopens ==
    [][\A e \in inflight :
          (/\ e \notin inflight'
           /\ ~e.compliant
           /\ HasItem(findings, PersistKey)
           /\ findings[PersistKey].State = "RESOLVED"
           /\ \A i \in DOMAIN last.arrived : last.arrived[i].t < e.t)
          => /\ IsActive(findings', PersistKey)
             /\ "FirstSeen" \in DOMAIN findings[PersistKey] =>
                    findings'[PersistKey].FirstSeen = findings[PersistKey].FirstSeen]_vars

\* non-compliant, then compliant, then non-compliant again, each later than
\* the one before: the finding is ACTIVE with its first FirstSeen
C14_Witness ==
    /\ last.op = "persist"
    /\ Len(last.arrived) = 3
    /\ ~last.arrived[1].compliant
    /\ last.arrived[2].compliant
    /\ ~last.arrived[3].compliant
    /\ last.arrived[1].t < last.arrived[2].t
    /\ last.arrived[2].t < last.arrived[3].t
    /\ IsActive(findings, PersistKey)
    /\ findings[PersistKey].DescribeTime = last.arrived[3].t
    /\ findings[PersistKey].FirstSeen = last.arrived[1].t

----------------------------------------------------------------------------
(* Direct calls of S3BucketPublicEvaluator.evaluate (SpecEvaluate) *)

InitEvaluate ==
    /\ resources = EmptyTable
    /\ findings = EmptyTable
    /\ policies = EmptyTable
    /\ last = NoOp
    /\ inflight = {}
    /\ CacheIdle

\* the evaluator bound to a policy launched with the given scope
EvaluatorFor(scope) ==
    create_policy_evaluator(PersistPolicy,
        _deserialize_launched_policy(LaunchedItem(PersistPolicy, scope, NoneValue)))

\* one evaluate call; an AttributeError leaves the store as it was
Evaluate(scope, config, describe_time_ms, now) ==
    /\ IF EvaluateRaises(EvaluatorFor(scope), PersistArn, config)
       THEN /\ UNCHANGED findings
            /\ last' = [op |-> "evaluate", scope |-> scope, config |-> config,
                        t |-> describe_time_ms,
                        raised |-> TRUE, result |-> NoneValue, pre |-> findings]
       ELSE LET r == evaluate(findings, EvaluatorFor(scope), PersistArn, config,
                              describe_time_ms, now) IN
            /\ findings' = r.table
            /\ last' = [op |-> "evaluate", scope |-> scope, config |-> config,
                        t |-> describe_time_ms,
                        raised |-> FALSE,
                        result |-> [scoped |-> r.scoped, compliant |-> r.compliant,
                                    finding_id |-> r.finding_id],
                        pre |-> findings]
    /\ UNCHANGED <<resources, policies, inflight, summary, readers, clock>>

NextEvaluate ==
    \E scope \in ScopeChoices, config \in Configs, t \in Times, now \in WallClock :
        Evaluate(scope, config, t, now)

SpecEvaluate == InitEvaluate /\ [][NextEvaluate]_vars

\* C15: when the account evaluate reads from the ARN is outside the policy's
\* scope, the call returns scoped = false, compliant = true and finding_id =
\* None, does not raise, and leaves the Findings Store as it was.
C15_OutOfScopeNoWrite ==
    (/\ last.op = "evaluate"
     /\ ~should_evaluate_resource(get_account_from_arn(PersistArn), PersistArn, last.scope))
    => /\ ~last.raised
       /\ last.result = [scoped |-> FALSE, compliant |-> TRUE, finding_id |-> NoneValue]
       /\ findings = last.pre

\* an out-of-scope evaluation of a non-compliant bucket whose finding is ACTIVE
C15_Witness ==
    /\ last.op = "evaluate"
    /\ ~should_evaluate_resource(get_account_from_arn(PersistArn), PersistArn, last.scope)
    /\ last.config = PublicConfig
    /\ IsActive(last.pre, PersistKey)
    /\ last.result.scoped = FALSE
    /\ findings = last.pre

----------------------------------------------------------------------------
(* Claims about repeated sweeps (Spec) *)

\* C16: a full scan_policy sweep that runs right after another full sweep,
\* with nothing changed in between, reports findings_created = 0 and
\* findings_closed = 0.
C16_SecondSweepReportsZero ==
    (last.op = "scan_policy" /\ last.full /\ last.after_scan) =>
        (last.created = 0 /\ last.closed = 0)

\* C17: a full scan_policy sweep that runs right after another full sweep
\* leaves every finding record as it was, in every attribute, and creates no
\* finding record.
C17_SecondSweepChangesNothing ==
    [][(/\ last.op = "scan_policy" /\ last.full
        /\ last'.op = "scan_policy" /\ last'.full)
       => findings' = findings]_vars

----------------------------------------------------------------------------
(* Notifications delivered to process_event, for a bucket and for an IAM
   user, whose ARN carries the account id (SpecEvent) *)

\* arn:aws:iam::111:user/u1
IamArn == <<"arn", "aws", "iam", "", "111", "user/u1">>

EventArns == Arns \cup {IamArn}

\* configurations of the IAM user; the last one differs from the first only
\* in a volatile field
UserConfigs ==
    {[UserName |-> "u1", MfaEnabled |-> TRUE],
     [UserName |-> "u1", MfaEnabled |-> FALSE],
     [UserName |-> "u1", MfaEnabled |-> TRUE, LastModified |-> "later"]}

\* what describe answers for a resource
DescribedFor(arn) ==
    (IF get_service_from_arn(arn) = "s3" THEN Configs ELSE UserConfigs)
        \cup {DescribeFailed}

InitEvent ==
    /\ resources = EmptyTable
    /\ findings = EmptyTable
    /\ policies \in {EmptyTable,
                      PutItem(EmptyTable, PersistPolicy,
                              LaunchedItem(PersistPolicy, EmptyScope, NoneValue))}
    /\ last = NoOp
    /\ inflight = {}
    /\ CacheIdle

\* one notification record is processed; redelivery tells that the record
\* processed just before was the same notification, was processed to the end
\* and left the described configuration in the Resource Store, and that
\* describe answers what it answered then
Deliver(resource_arn, event_time, described, describe_time_ms, now) ==
    LET r == process_event(resources, findings, policies, resource_arn, event_time,
                           described, describe_time_ms, now) IN
    /\ resources' = r.resources
    /\ findings' = r.findings
    /\ last' = [op |-> "process_event", arn |-> resource_arn,
                event_time |-> event_time, described |-> described,
                outcome |-> r.outcome, calls |-> r.calls,
                redelivery |-> /\ last.op = "process_event"
                               /\ last.arn = resource_arn
                               /\ last.event_time = event_time
                               /\ last.described = described
                               /\ last.outcome # "describe_failed"
                               /\ \E k \in DOMAIN resources :
                                     /\ k[2] = resource_arn
                                     /\ Normalize(resources[k].Configuration)
                                            = Normalize(described)]
    /\ UNCHANGED <<policies, inflight, summary, readers, clock>>

NextEvent ==
    \E arn \in EventArns, event_time \in Stamps, t \in Stamps :
        \E described \in DescribedFor(arn), now \in t..MaxStamp :
            Deliver(arn, event_time, described, t, now)

SpecEvent == InitEvent /\ [][NextEvent]_vars

\* the records the Resource Store holds for a resource
StoredRecords(arn) == {k \in DOMAIN resources : k[2] = arn}

\* C18: processing again a notification that was processed to the end, with
\* describe answering the same configuration, writes nothing to the Resource
\* Store and nothing to the Findings Store.
C18_RedeliveryWritesNothing ==
    [][(last'.op = "process_event" /\ last'.redelivery)
       => (resources' = resources /\ findings' = findings)]_vars

\* C19: for a notification about a stored resource whose event_time is at
\* most the stored LastSeenAt, process_event makes no describe call, runs no
\* evaluator and writes nothing to either store.
C19_StaleEventSkipped ==
    [][(/\ last'.op = "process_event"
        /\ \E k \in StoredRecords(last'.arn) :
              last'.event_time <= resources[k].LastSeenAt)
       => (last'.calls = {} /\ resources' = resources /\ findings' = findings)]_vars

\* C20: for a notification about a stored resource, when the described
\* configuration equals the stored one once the volatile fields are removed,
\* process_event makes no upsert, runs no evaluator and writes nothing to
\* either store.
C20_UnchangedConfigSkipped ==
    [][(/\ last'.op = "process_event"
        /\ last'.described # DescribeFailed
        /\ \E k \in StoredRecords(last'.arn) :
              Normalize(resources[k].Configuration) = Normalize(last'.described))
       => (/\ last'.calls \subseteq {"describe"}
           /\ resources' = resources
           /\ findings' = findings)]_vars

----------------------------------------------------------------------------
(* Batches of notification records delivered to process_event (SpecBatch) *)

MaxRecords == 2

\* what describe answers for a record of a batch
BatchDescribed(arn) ==
    IF get_service_from_arn(arn) = "s3"
    THEN {PrivateConfig, PublicConfig, DescribeFailed}
    ELSE {[UserName |-> "u1", MfaEnabled |-> TRUE]}

\* a record of the batch: a body json.loads rejects, a body no ARN can be
\* extracted from, or a notification about a resource, with what describe
\* answers for it and whether the Resource Store rejects its write (the
\* write of a bucket only, and only when describe answered)
BatchRecords ==
    {[kind |-> "unparseable"], [kind |-> "no_arn"]}
    \cup UNION {{[kind |-> "event", arn |-> arn, described |-> described,
                  upsert_fails |-> FALSE] : described \in BatchDescribed(arn)} :
                  arn \in EventArns}
    \cup {[kind |-> "event", arn |-> arn, described |-> described,
           upsert_fails |-> TRUE] :
              arn \in Arns, described \in {PrivateConfig, PublicConfig}}

\* how the body of the record loop ends when an exception leaves it
RecordFailures == {"json_error", "arn_error", "describe_failed", "write_failed"}

\* what one record leaves behind, given what process_event does for its
\* notification
RecordResult(resTable, findTable, rec, r) ==
    IF rec.upsert_fails /\ "upsert_resource" \in r.calls
    THEN [resources |-> resTable, findings |-> findTable, outcome |-> "write_failed"]
    ELSE [resources |-> r.resources, findings |-> r.findings, outcome |-> r.outcome]

\* the body of the record loop for one record of a batch; the notification's
\* event time is the instant the batch is processed at
process_record(resTable, findTable, polTable, rec, now) ==
    IF rec.kind = "unparseable"
    THEN [resources |-> resTable, findings |-> findTable, outcome |-> "json_error"]
    ELSE IF rec.kind = "no_arn"
    THEN [resources |-> resTable, findings |-> findTable, outcome |-> "arn_error"]
    ELSE CHOOSE out \in {RecordResult(resTable, findTable, rec, r) :
                             r \in {process_event(resTable, findTable, polTable, rec.arn,
                                                  now, rec.described, now, now)}} : TRUE

\* mutation: an exception of one record ends the loop
ContinuesAfter_OnlySuccess(outcome) == outcome \notin RecordFailures

\* the except clause of the record loop logs any exception and continues
ContinuesAfter(outcome) == TRUE

\* the state of the record loop before its first record
BatchStart(resTable, findTable) ==
    [resources |-> resTable, findings |-> findTable, processed |-> 0,
     failed |-> 0, recovered |-> FALSE, kept |-> <<>>, returned |-> "ok"]

\* the state of the record loop after a record whose body ended as r
AfterRecord(acc, rec, r) ==
    [resources |-> r.resources, findings |-> r.findings,
     processed |-> acc.processed + 1,
     failed |-> acc.failed + (IF r.outcome \in RecordFailures THEN 1 ELSE 0),
     recovered |-> acc.recovered \/ (acc.failed > 0 /\ r.outcome = "evaluated"),
     kept |-> IF r.outcome \in RecordFailures THEN acc.kept ELSE Append(acc.kept, rec),
     returned |-> IF ContinuesAfter(r.outcome) THEN acc.returned ELSE "raised"]

RECURSIVE RecordLoop(_, _, _, _, _)
\* the record loop of process_event from record i on: the two stores, how
\* many records were processed and how many failed, whether a record was
\* evaluated after another had failed, the records that did not fail, and
\* what the handler returns
RecordLoop(acc, polTable, records, i, now) ==
    IF i > Len(records) \/ acc.returned = "raised" THEN acc
    ELSE CHOOSE end \in
            {RecordLoop(next, polTable, records, i + 1, now) :
                next \in {AfterRecord(acc, records[i], r) :
                             r \in {process_record(acc.resources, acc.findings,
                                                   polTable, records[i], now)}}} : TRUE

InitBatch == InitEvent

\* process_event for a batch of records; e is the same handler given only
\* the records that did not fail
DeliverBatch(records, now) ==
    \E r \in {RecordLoop(BatchStart(resources, findings), policies, records, 1, now)} :
    \E e \in {RecordLoop(BatchStart(resources, findings), policies, r.kept, 1, now)} :
        /\ resources' = r.resources
        /\ findings' = r.findings
        /\ last' = [op |-> "process_event", count |-> Len(records),
                    processed |-> r.processed, failed |-> r.failed,
                    recovered |-> r.recovered, returned |-> r.returned,
                    without_failures |-> [resources |-> e.resources,
                                          findings |-> e.findings]]
        /\ UNCHANGED <<policies, inflight, summary, readers, clock>>

\* the batches of at most MaxRecords records
RecordBatches == UNION {[1..n -> BatchRecords] : n \in 1..MaxRecords}

NextBatch == \E records \in RecordBatches, now \in Stamps : DeliverBatch(records, now)

SpecBatch == InitBatch /\ [][NextBatch]_vars

\* C21: whatever records of a batch fail, process_event returns ok, every
\* record of the batch is processed, and the two stores end as they do when
\* the handler is given only the records that did not fail.
C21_PoisonRecordIsolated ==
    last.op = "process_event" =>
        /\ last.returned = "ok"
        /\ last.processed = last.count
        /\ resources = last.without_failures.resources
        /\ findings = last.without_failures.findings

\* a batch in which a record failed and a later record was written to both
\* stores
C21_Witness ==
    /\ last.op = "process_event"
    /\ last.failed > 0
    /\ last.recovered
    /\ resources # EmptyTable
    /\ findings # EmptyTable

----------------------------------------------------------------------------
(* Notifications about a bucket while several policies of its service are
   active, one of them without an evaluator class (SpecPolicyLoop) *)

\* the policies of the registry, with or without an evaluator class
RegisteredPolicyIds == DOMAIN PolicyDefinitions

\* the tables of launched policies: each registered policy is not launched,
\* or launched with one of the scopes
LaunchedTables ==
    {[p \in ps |-> LaunchedItem(p, sc[p], NoneValue)] :
        ps \in SUBSET RegisteredPolicyIds, sc \in [RegisteredPolicyIds -> ScopeChoices]}

InitPolicyLoop ==
    /\ resources = EmptyTable
    /\ findings = EmptyTable
    /\ policies \in LaunchedTables
    /\ last = NoOp
    /\ inflight = {}
    /\ CacheIdle

\* the active policies of the service whose turn in the policy loop raises
RaisingPolicies(polTable, resource_arn, config) ==
    {p.policy_id : p \in {q \in get_active_policies_for_service(polTable,
                                    get_service_from_arn(resource_arn)) :
        \/ create_policy_evaluator_raises(q.policy_id)
        \/ EvaluateRaises(create_policy_evaluator(q.policy_id, q), resource_arn, config)}}

\* process_event for one notification about a bucket
Changed(resource_arn, described, describe_time_ms, now) ==
    LET r == process_event(resources, findings, policies, resource_arn,
                           describe_time_ms, described, describe_time_ms, now)
    IN  /\ resources' = r.resources
        /\ findings' = r.findings
        /\ last' = [op |-> "process_event", arn |-> resource_arn,
                    described |-> described, t |-> describe_time_ms, now |-> now,
                    outcome |-> r.outcome,
                    raised |-> IF described = DescribeFailed THEN {}
                               ELSE RaisingPolicies(policies, resource_arn, described)]
        /\ UNCHANGED <<policies, inflight, summary, readers, clock>>

NextPolicyLoop ==
    \E arn \in Arns, described \in DescribeResults, t \in Stamps :
        \E now \in t..MaxStamp : Changed(arn, described, t, now)

SpecPolicyLoop == InitPolicyLoop /\ [][NextPolicyLoop]_vars

\* C22: when the turn of one active policy raises for a changed resource,
\* the upsert of the resource is kept, and for every other active policy of
\* the service the finding of the resource is what evaluating that policy
\* leaves.
C22_EvaluatorFailureIsolated ==
    [][(/\ last'.op = "process_event"
        /\ last'.outcome = "evaluated"
        /\ last'.raised # {})
       => (/\ resources' = upsert_resource(resources, get_account_from_arn(last'.arn),
                                           get_service_from_arn(last'.arn), last'.arn,
                                           last'.described, last'.t)
           /\ \A p \in get_active_policies_for_service(policies, "s3") :
                 p.policy_id \notin last'.raised =>
                    ItemOf(findings', FindingKey(last'.arn, p.policy_id))
                      = ItemOf(evaluate(findings,
                                        create_policy_evaluator(p.policy_id, p),
                                        last'.arn, last'.described, last'.t,
                                        last'.now).table,
                               FindingKey(last'.arn, p.policy_id)))]_vars

\* the turn of S3BucketVersioningDisabled raised, the bucket was stored and
\* S3BucketPublic left an ACTIVE finding
C22_Witness ==
    /\ last.op = "process_event"
    /\ last.outcome = "evaluated"
    /\ last.raised = {"S3BucketVersioningDisabled"}
    /\ HasItem(policies, "S3BucketPublic")
    /\ HasItem(resources, ResKey("", "s3", last.arn))
    /\ HasItem(findings, FindingKey(last.arn, "S3BucketPublic"))
    /\ findings[FindingKey(last.arn, "S3BucketPublic")].State = "ACTIVE"

----------------------------------------------------------------------------
(* Sweeps over an inventory of two buckets, with policies launched with and
   without an evaluator class, and the metrics record they save (SpecSweep) *)

SweepArns == {S3Arn("b1"), S3Arn("b2")}

\* the bucket configurations, under the bucket's own name
ConfigsOf(arn) == {[c EXCEPT !.Name = arn[6]] : c \in Configs}

\* the inventories of the customer account: each bucket is absent or stored
\* with one of the configurations
Inventories ==
    UNION {{[k \in {ResKey("111", "s3", arn) : arn \in arns} |->
                ResourceItem("111", "s3", k[2], c[k[2]], 1)] :
              c \in {f \in [arns -> Configs \cup UNION {ConfigsOf(a) : a \in arns}] :
                        \A a \in arns : f[a] \in ConfigsOf(a)}} :
           arns \in SUBSET SweepArns}

\* the events of a sweep: scan_type and policy_id are optional
SweepEvents ==
    {<<>>}
        \cup [scan_type : ScanTypes]
        \cup [policy_id : RegisteredPolicyIds]
        \cup [scan_type : ScanTypes, policy_id : RegisteredPolicyIds]

\* event.get('scan_type', 'bootstrap')
ScanTypeOf(event) == Get(event, "scan_type", "bootstrap")

\* mutation: every sweep saves its metrics
SavesMetrics_Always(scan_type) == TRUE

\* if scan_type == 'anti-entropy'
SavesMetrics(scan_type) == scan_type = "anti-entropy"

\* the key of the metrics record in the summary table
LastPolicyScan == "last_policy_scan"

\* the item scan_policy puts under last_policy_scan
MetricsItem(r, launched_policies, scan_start_ms, scan_end_ms, scan_type) ==
    [Type |-> LastPolicyScan, timestamp_ms |-> scan_end_ms,
     duration_ms |-> scan_end_ms - scan_start_ms,
     processed_resources |-> r.processed, skipped_resources |-> r.skipped,
     findings_created |-> r.created, findings_closed |-> r.closed,
     policies_evaluated |-> Cardinality(launched_policies),
     accounts_processed |-> Cardinality(CustomerAccounts),
     scan_type |-> scan_type]

InitSweep ==
    /\ resources \in Inventories
    /\ findings = EmptyTable
    /\ policies \in LaunchedTables
    /\ last = NoOp
    /\ inflight = {}
    /\ CacheIdle

\* scan_handler.scan_policy with its metrics record
Sweep(event, scan_start_ms, scan_end_ms) ==
    LET launched_policies == SweepPolicies(policies, event)
        r == scan_policy(findings, resources, policies, event, scan_start_ms)
    IN  /\ findings' = r.table
        /\ summary' = IF /\ launched_policies # {}
                         /\ SavesMetrics(ScanTypeOf(event))
                      THEN PutItem(summary, LastPolicyScan,
                                   MetricsItem(r, launched_policies, scan_start_ms,
                                               scan_end_ms, ScanTypeOf(event)))
                      ELSE summary
        /\ last' = [op |-> "scan_policy", event |-> event, now |-> scan_start_ms,
                    statusCode |-> 200, active |-> launched_policies # {},
                    processed |-> r.processed, skipped |-> r.skipped,
                    created |-> r.created, closed |-> r.closed]
        /\ UNCHANGED <<resources, policies, inflight, readers, clock>>

NextSweep ==
    \E event \in SweepEvents, scan_start_ms \in Stamps :
        \E scan_end_ms \in scan_start_ms..MaxStamp :
            Sweep(event, scan_start_ms, scan_end_ms)

SpecSweep == InitSweep /\ [][NextSweep]_vars

\* the (account, launched policy, resource) triples a sweep has an evaluator for
EvaluableTriples(resTable, launched_policies) ==
    {w \in SweepWork(resTable, launched_policies) :
        /\ ~create_policy_evaluator_raises(w[2].policy_id)
        /\ resTable[w[3]].AccountService
              = AccountServiceOf(w[1], get_policy_definition(w[2].policy_id).service)}

\* the triples whose evaluation raises
RaisingTriples(resTable, launched_policies) ==
    {w \in EvaluableTriples(resTable, launched_policies) :
        EvaluateRaises(create_policy_evaluator(w[2].policy_id, w[2]),
                       resTable[w[3]].ARN, resTable[w[3]].Configuration)}

\* C23: when evaluations or evaluator creations raise during a sweep, the
\* sweep returns status 200, skipped_resources counts one per failure, and for
\* every other triple the finding is what evaluating the triple leaves.
C23_SweepSkipsFailures ==
    [][(/\ last'.op = "scan_policy"
        /\ \/ RaisingTriples(resources, SweepPolicies(policies, last'.event)) # {}
           \/ FailedEvaluators(SweepPolicies(policies, last'.event)) # {})
       => LET launched_policies == SweepPolicies(policies, last'.event)
              raising == RaisingTriples(resources, launched_policies)
          IN  /\ last'.statusCode = 200
              /\ last'.skipped = Cardinality(raising)
                                    + Cardinality(FailedEvaluators(launched_policies))
              /\ \A w \in EvaluableTriples(resources, launched_policies) \ raising :
                    LET item == resources[w[3]]
                        key == FindingKey(item.ARN, w[2].policy_id)
                    IN  ItemOf(findings', key)
                          = ItemOf(evaluate(findings,
                                            create_policy_evaluator(w[2].policy_id, w[2]),
                                            item.ARN, item.Configuration,
                                            item.DescribeTime, last'.now).table,
                                   key)]_vars

\* a sweep in which the evaluation of one bucket raised and one evaluator
\* could not be created, while the other bucket got its ACTIVE finding
C23_Witness ==
    /\ last.op = "scan_policy"
    /\ last.skipped = 2
    /\ last.processed = 1
    /\ last.created = 1
    /\ \E k \in DOMAIN findings : findings[k].State = "ACTIVE"

\* C27: a sweep whose scan_type is not 'anti-entropy', or that carries no
\* scan_type, leaves the last_policy_scan record of the summary table as it was.
C27_OnlyAntiEntropySavesMetrics ==
    [][(last'.op = "scan_policy" /\ ScanTypeOf(last'.event) # "anti-entropy")
       => ItemOf(summary', LastPolicyScan) = ItemOf(summary, LastPolicyScan)]_vars

\* a bootstrap sweep, and one with no scan_type, made after an anti-entropy
\* sweep had saved its metrics
C27_Witness ==
    /\ last.op = "scan_policy"
    /\ last.active
    /\ "scan_type" \notin DOMAIN last.event
    /\ HasItem(summary, LastPolicyScan)
    /\ summary[LastPolicyScan].scan_type = "anti-entropy"

----------------------------------------------------------------------------
(* Claims about the readers of one cache key (SpecCache, SpecCacheLive) *)

\* the refresh lock is held: its record exists and has not expired
LockHeld == HasItem(summary, "lock") /\ ~LockCondition(summary, clock)

\* C24: no reader starts to recompute the summary while another reader that
\* acquired the refresh lock is recomputing and the lock is still held.
C24_OneRefresherPerKey ==
    [][\A r \in Readers :
          (readers[r].pc # "compute" /\ readers'[r].pc = "compute")
             => ~\E o \in Readers \ {r} :
                    /\ readers[o].pc = "compute"
                    /\ readers[o].lock_acquired
                    /\ LockHeld]_vars

\* C25: a reader that read a stale entry and is refused the lock returns the
\* summary of that entry in the same step: the cache entry and the lock
\* record are not written, no time passes and nothing is recomputed.
C25_StaleServedOnContention ==
    [][\A r \in Readers :
          (/\ readers[r].pc = "lock"
           /\ readers[r].cached # NoItem
           /\ ~LockCondition(summary, clock)
           /\ readers'[r] # readers[r])
             => /\ readers'[r].pc = "done"
                /\ readers'[r].returned = "stale"
                /\ readers'[r].value = readers[r].cached.summary
                /\ summary' = summary
                /\ clock' = clock
                /\ last'.computed = last.computed]_vars

\* a reader returned a stale entry while another reader held the lock
C25_Witness ==
    /\ last.op = "cache"
    /\ \E r \in Readers :
          /\ readers[r].pc = "done"
          /\ readers[r].returned = "stale"
          /\ \E o \in Readers \ {r} : readers[o].lock_acquired
    /\ LockHeld

\* one step of reader r
ReaderStep(r) ==
    \/ ReadCache(r)
    \/ TryAcquireLock(r)
    \/ Wake(r)
    \/ Compute(r)
    \/ Save(r)
    \/ Release(r)

\* time.sleep returns at the latest when its duration has passed
SleepElapses(r) ==
    /\ readers[r].pc = "sleep"
    /\ clock < readers[r].wake_at
    /\ clock' = readers[r].wake_at
    /\ UNCHANGED <<resources, findings, policies, last, inflight, summary, readers>>

NextCacheLive ==
    \/ \E r \in Readers : ReadCache(r)
    \/ \E r \in Readers : TryAcquireLock(r)
    \/ \E r \in Readers : Wake(r)
    \/ \E r \in Readers : Compute(r)
    \/ \E r \in Readers : Save(r)
    \/ \E r \in Readers : Release(r)
    \/ \E d \in AdvanceSteps(last.kind) : Advance(d)
    \/ \E r \in Readers : SleepElapses(r)

\* the reader whose read is followed; the other readers may stop anywhere
FollowedReader == 1

\* the followed reader keeps running and its sleep ends; nothing is assumed
\* of the other readers, which may hold the lock for ever
SpecCacheLive ==
    /\ InitCache
    /\ [][NextCacheLive]_vars
    /\ WF_vars(ReaderStep(FollowedReader) \/ SleepElapses(FollowedReader))

\* C26: the followed reader returns a summary value whatever the other
\* readers do, and no reader comes back to the lock attempt or to the sleep:
\* the lock is tried once, from the first cache read, and the sleep is entered
\* once, from the lock attempt.
C26_ReadTerminates ==
    /\ <>(/\ readers[FollowedReader].pc = "done"
          /\ readers[FollowedReader].returned # "nothing")
    /\ [][\A r \in Readers :
             /\ (readers'[r].pc = "lock" /\ readers[r].pc # "lock")
                   => readers[r].pc = "start"
             /\ (readers'[r].pc = "sleep" /\ readers[r].pc # "sleep")
                   => readers[r].pc = "lock"]_vars

\* the followed reader slept once and then computed without the lock, while
\* the other reader stays in its recomputation with the lock
C26_Witness ==
    /\ last.op = "cache"
    /\ readers[FollowedReader].pc = "done"
    /\ readers[FollowedReader].returned = "computed"
    /\ ~readers[FollowedReader].lock_acquired
    /\ \E o \in Readers \ {FollowedReader} :
          readers[o].pc = "compute" /\ readers[o].lock_acquired
    /\ \E e \in last.computed : e.reader = FollowedReader

----------------------------------------------------------------------------
(* Direct calls of scoping.should_evaluate_resource (SpecScope) *)

\* the account ids handed to the scope check: two customer accounts and the
\* empty id parsed from an S3 ARN
ScopeAccounts == {"111", "222", ""}

\* tag rules and OU path prefixes a scope lists
TagRules == {<<"Environment", {"prod"}>>}
OuPrefixes == {<<"Production">>}

\* the scopes of the calls
Scopes ==
    [include_accounts : SUBSET {"111", "222"}, exclude_accounts : SUBSET {"111", "222"},
     include_tags : SUBSET TagRules, exclude_tags : SUBSET TagRules,
     include_ou_paths : SUBSET OuPrefixes, exclude_ou_paths : SUBSET OuPrefixes]

InitScope ==
    /\ resources = EmptyTable
    /\ findings = EmptyTable
    /\ policies = EmptyTable
    /\ last = NoOp
    /\ inflight = {}
    /\ CacheIdle

\* one call of should_evaluate_resource
ShouldEvaluateResource(account_id, resource_arn, scope) ==
    /\ last' = [op |-> "should_evaluate_resource", account_id |-> account_id,
                scope |-> scope,
                result |-> should_evaluate_resource(account_id, resource_arn, scope)]
    /\ UNCHANGED <<resources, findings, policies, inflight, summary, readers, clock>>

NextScope ==
    \E account_id \in ScopeAccounts, arn \in Arns, scope \in Scopes :
        ShouldEvaluateResource(account_id, arn, scope)

SpecScope == InitScope /\ [][NextScope]_vars

\* the six exclusions of the scope rule
ScopeExclusions(account_id, scope) ==
    <<scope.include_accounts # {} /\ account_id \notin scope.include_accounts,
      account_id \in scope.exclude_accounts,
      scope.include_tags # {}
         /\ \A r \in scope.include_tags :
               ~(r[1] \in DOMAIN AccountTags(account_id)
                 /\ AccountTags(account_id)[r[1]] \in r[2]),
      \E r \in scope.exclude_tags :
         r[1] \in DOMAIN AccountTags(account_id)
            /\ AccountTags(account_id)[r[1]] \in r[2],
      scope.include_ou_paths # {}
         /\ \A o \in scope.include_ou_paths :
               \/ AccountOuPath(account_id) = NoOuPath
               \/ ~StartsWith(AccountOuPath(account_id), o),
      \E o \in scope.exclude_ou_paths :
         AccountOuPath(account_id) # NoOuPath
            /\ StartsWith(AccountOuPath(account_id), o)>>

\* C28: should_evaluate_resource answers false exactly when one of the six
\* exclusions holds; an account listed in include_accounts and in
\* exclude_accounts is out of scope.
C28_ScopeRule ==
    last.op = "should_evaluate_resource" =>
        /\ last.result
             = ~\E i \in 1..6 : ScopeExclusions(last.account_id, last.scope)[i]
        /\ (/\ last.account_id \in last.scope.include_accounts
            /\ last.account_id \in last.scope.exclude_accounts) => ~last.result

\* a call for an account listed in both lists, with no tag or OU rule
C28_Witness ==
    /\ last.op = "should_evaluate_resource"
    /\ last.account_id \in last.scope.include_accounts
    /\ last.account_id \in last.scope.exclude_accounts
    /\ last.scope.include_tags = {}
    /\ last.scope.include_ou_paths = {}
    /\ ~last.result

----------------------------------------------------------------------------
(* Notifications about a bucket while S3BucketPublic is launched with or
   without a severity override (SpecSeverity) *)

\* the severity overrides of launch_policy: none, the ends of 0..100 and a
\* value in between
SeverityOverrides == {NoneValue, Some(0), Some(50), Some(100)}

InitSeverity ==
    /\ resources = EmptyTable
    /\ findings = EmptyTable
    /\ policies \in {PutItem(EmptyTable, "S3BucketPublic",
                             LaunchedItem("S3BucketPublic", EmptyScope, severity)) :
                        severity \in SeverityOverrides}
    /\ last = NoOp
    /\ inflight = {}
    /\ CacheIdle

NextSeverity ==
    \E arn \in Arns, described \in DescribeResults, t \in Stamps :
        \E now \in t..MaxStamp : Changed(arn, described, t, now)

SpecSeverity == InitSeverity /\ [][NextSeverity]_vars

\* C29: the severity written on a finding is the launched policy's override
\* when the launched item carries one, 0 included, and the definition's
\* default severity otherwise.
C29_OverrideSeverityWritten ==
    \A k \in DOMAIN findings :
        ("Severity" \in DOMAIN findings[k] /\ HasItem(policies, k[2])) =>
            findings[k].Severity
                = IF "Severity" \in DOMAIN policies[k[2]]
                  THEN policies[k[2]].Severity
                  ELSE get_policy_definition(k[2]).severity

----------------------------------------------------------------------------
(* The verdict of S3BucketPublicEvaluator.evaluate (SpecEvaluate) *)

\* the configuration holds a block configuration whose four flags are all true
AllFlagsTrue(config) ==
    /\ "PublicAccessBlockConfiguration" \in DOMAIN config
    /\ config.PublicAccessBlockConfiguration # NoneValue
    /\ ~IsPublic(config.PublicAccessBlockConfiguration)

\* C30: for an in-scope bucket evaluate does not raise, answers compliant
\* exactly when all four block-public flags are true, and a non-compliant
\* answer (a flag false or absent, the block configuration missing or None)
\* whose describe time put_finding accepts leaves an ACTIVE finding carrying
\* the policy's effective severity.
C30_PublicAccessBlockDecides ==
    (/\ last.op = "evaluate"
     /\ should_evaluate_resource(get_account_from_arn(PersistArn), PersistArn, last.scope))
    => /\ ~last.raised
       /\ last.result.scoped
       /\ last.result.compliant <=> AllFlagsTrue(last.config)
       /\ (~last.result.compliant /\ PutFindingCondition(last.pre, PersistKey, last.t)) =>
            /\ IsActive(findings, PersistKey)
            /\ findings[PersistKey].Severity = EvaluatorFor(last.scope).severity

----------------------------------------------------------------------------
(* Fresh inventory scans of one account and service (SpecInventory) *)

\* what services.list_resources answers: the buckets it could describe, each
\* with its configuration, and how many it could not (failed_count)
InventoryListings ==
    UNION {{f \in [arns -> UNION {ConfigsOf(a) : a \in arns}] :
               \A a \in arns : f[a] \in ConfigsOf(a)} : arns \in SUBSET SweepArns}

FailedCounts == {0, 1}

InitInventory ==
    /\ resources = EmptyTable
    /\ findings = EmptyTable
    /\ policies = EmptyTable
    /\ last = NoOp
    /\ inflight = {}
    /\ CacheIdle

\* inventory_handler.generate_inventory_for_account_service, fresh scan: every
\* listed resource is upserted; nothing else is written
InventoryScan(account_id, service, listing, failed_count, describe_time_ms) ==
    /\ resources' = UpsertListing(resources, account_id, service, listing, describe_time_ms)
    /\ last' = [op |-> "generate_inventory", account_id |-> account_id,
                service |-> service, listed |-> DOMAIN listing,
                failed_count |-> failed_count, pre |-> DOMAIN resources]
    /\ UNCHANGED <<findings, policies, inflight, summary, readers, clock>>

NextInventory ==
    \E account_id \in CustomerAccounts, listing \in InventoryListings,
       failed_count \in FailedCounts, t \in Stamps :
          InventoryScan(account_id, "s3", listing, failed_count, t)

SpecInventory == InitInventory /\ [][NextInventory]_vars

\* C31: after a fresh inventory scan whose listing was fully successful, the
\* Resource Store holds, under the scanned account and service, only the
\* resources of the listing.
C31_UnlistedResourceRemoved ==
    (last.op = "generate_inventory" /\ last.failed_count = 0) =>
        \A k \in get_resources_by_account_service(resources,
                    AccountServiceOf(last.account_id, last.service)) :
            k[2] \in last.listed

----------------------------------------------------------------------------
(* The calls process_event makes for a changed resource (SpecChange) *)

\* PolicyManager.update_launched_policy(policy_id, status = ...): the row
\* with its Status attribute set
WithStatus(item, status) == [item EXCEPT !.Status = status]

PolicyStatuses == {"active", "suspended"}

\* the tables of launched policies: each registered policy is not launched,
\* or launched and left active, or launched and then updated to another status
StatusTables ==
    {[p \in ps |-> WithStatus(LaunchedItem(p, EmptyScope, NoneValue), st[p])] :
        ps \in SUBSET RegisteredPolicyIds, st \in [RegisteredPolicyIds -> PolicyStatuses]}

RECURSIVE PolicyLoopCalls(_, _, _, _)
\* the calls of the policy loop, in the order of the loop: for each policy
\* create_policy_evaluator and, when that did not raise, evaluate
PolicyLoopCalls(service_policies, resource_arn, new_config, describe_time_ms) ==
    IF service_policies = {} THEN <<>>
    ELSE LET policy == FirstScanned(service_policies) IN
         <<[call |-> "create_policy_evaluator", policy_id |-> policy.policy_id]>>
         \o (IF create_policy_evaluator_raises(policy.policy_id) THEN <<>>
             ELSE <<[call |-> "evaluate", policy_id |-> policy.policy_id,
                     resource_arn |-> resource_arn, config |-> new_config,
                     describe_time_ms |-> describe_time_ms]>>)
         \o PolicyLoopCalls(service_policies \ {policy}, resource_arn, new_config,
                            describe_time_ms)

\* the calls process_event makes once it found the configuration changed:
\* upsert_resource, get_active_policies_for_service, then the policy loop
ChangedResourceCalls(polTable, resource_arn, new_config, describe_time_ms) ==
    <<[call |-> "upsert_resource", arn |-> resource_arn, config |-> new_config,
       describe_time_ms |-> describe_time_ms]>>
    \o PolicyLoopCalls(get_active_policies_for_service(polTable,
                           get_service_from_arn(resource_arn)),
                       resource_arn, new_config, describe_time_ms)

InitChange ==
    /\ resources = EmptyTable
    /\ findings = EmptyTable
    /\ policies \in StatusTables
    /\ last = NoOp
    /\ inflight = {}
    /\ CacheIdle

\* process_event for one notification record, with the calls it made
Change(resource_arn, event_time, described, describe_time_ms, now) ==
    LET r == process_event(resources, findings, policies, resource_arn, event_time,
                           described, describe_time_ms, now) IN
    /\ resources' = r.resources
    /\ findings' = r.findings
    /\ last' = [op |-> "process_event", arn |-> resource_arn,
                described |-> described, t |-> describe_time_ms,
                outcome |-> r.outcome,
                log |-> IF r.outcome = "evaluated"
                        THEN ChangedResourceCalls(policies, resource_arn, described,
                                                  describe_time_ms)
                        ELSE <<>>]
    /\ UNCHANGED <<policies, inflight, summary, readers, clock>>

\* the notification is processed at the instant of its event
NextChange ==
    \E arn \in EventArns, t \in Stamps :
        \E described \in DescribedFor(arn) : Change(arn, t, described, t, t)

SpecChange == InitChange /\ [][NextChange]_vars

\* the launched policies whose row is active and whose definition is for the
\* service of the resource, read from the table itself
ActiveForService(arn) ==
    {p \in DOMAIN policies :
        /\ policies[p].Status = "active"
        /\ PolicyDefinitions[p].service = get_service_from_arn(arn)}

\* C32: for a changed resource the first call is upsert_resource, every
\* evaluate call carries the configuration and the describe time of that
\* upsert, and the policies the loop takes up are exactly the launched
\* policies that are active and whose definition's service is the resource's.
C32_UpsertThenMatchingEvaluators ==
    (last.op = "process_event" /\ last.outcome = "evaluated") =>
        /\ last.log[1] = [call |-> "upsert_resource", arn |-> last.arn,
                          config |-> last.described, describe_time_ms |-> last.t]
        /\ \A i \in 2..Len(last.log) : last.log[i].call # "upsert_resource"
        /\ \A i \in 1..Len(last.log) :
              last.log[i].call = "evaluate" =>
                 /\ last.log[i].resource_arn = last.arn
                 /\ last.log[i].config = last.log[1].config
                 /\ last.log[i].describe_time_ms = last.log[1].describe_time_ms
        /\ {last.log[i].policy_id :
               i \in {j \in 1..Len(last.log) :
                         last.log[j].call = "create_policy_evaluator"}}
              = ActiveForService(last.arn)
        /\ {last.log[i].policy_id :
               i \in {j \in 1..Len(last.log) : last.log[j].call = "evaluate"}}
              = {p \in ActiveForService(last.arn) : ~create_policy_evaluator_raises(p)}

\* a changed bucket while one policy of its service is active and another
\* was set to another status: the active one is evaluated after the upsert
C32_Witness ==
    /\ last.op = "process_event"
    /\ last.outcome = "evaluated"
    /\ get_service_from_arn(last.arn) = "s3"
    /\ Len(last.log) = 3
    /\ last.log[3].call = "evaluate"
    /\ \E p \in DOMAIN policies : policies[p].Status = "suspended"
    /\ HasItem(resources, ResKey(get_account_from_arn(last.arn), "s3", last.arn))

----------------------------------------------------------------------------
(* Who writes the cache entry and the lock record (SpecCache) *)

\* C33: every step that changes the cache entry is the save of a reader that
\* acquired the refresh lock; a reader refused the lock returns what it
\* computed without writing the entry.
C33_OnlyLockHolderSaves ==
    [][ItemOf(summary', "cache") # ItemOf(summary, "cache")
          => \E r \in Readers :
                /\ readers[r].pc = "save"
                /\ readers'[r] # readers[r]
                /\ readers[r].lock_acquired]_vars

----------------------------------------------------------------------------
(* The account a sweep evaluates a stored bucket under (Spec) *)

\* C34: after a full sweep, a non-compliant bucket stored under account A has
\* an ACTIVE finding filed under A's account_service from every active
\* policy with an evaluator whose include_accounts contains A.
C34_SweepUsesStoredAccount ==
    (last.op = "scan_policy" /\ last.full) =>
        \A k \in DOMAIN resources : \A p \in DOMAIN policies :
            (/\ k[1][2] = "s3"
             /\ resources[k].Configuration = PublicConfig
             /\ policies[p].Status = "active"
             /\ ~create_policy_evaluator_raises(p)
             /\ k[1][1] \in policies[p].Scope.include_accounts
             /\ k[1][1] \notin policies[p].Scope.exclude_accounts)
            => /\ IsActive(findings, FindingKey(k[2], p))
               /\ findings[FindingKey(k[2], p)].AccountService = k[1]

----------------------------------------------------------------------------
(* One Resource Store record per resource (Spec) *)

\* C35: the event path and the inventory scan write a resource under the
\* same key, so the Resource Store never holds two records with one ARN.
C35_OneRecordPerResource ==
    \A k1 \in DOMAIN resources : \A k2 \in DOMAIN resources :
        k1[2] = k2[2] => k1 = k2

----------------------------------------------------------------------------
(* Readers whose recomputation raises (SpecCacheFail) *)

\* the caches whose reader releases the lock in a finally clause
ReleasesInFinally(kind) == kind = "resources"

\* _compute_summary raises: the exception leaves the reader; only
\* get_resources_summary passes through its finally clause on the way out
ComputeRaises(r) ==
    /\ readers[r].pc = "compute"
    /\ summary' = IF readers[r].lock_acquired /\ ReleasesInFinally(last.kind)
                  THEN _release_lock(summary)
                  ELSE summary
    /\ readers' = [readers EXCEPT ![r] = ReaderDone("raised")]
    /\ UNCHANGED <<resources, findings, policies, last, inflight, clock>>

NextCacheFail ==
    \/ \E r \in Readers : ReadCache(r)
    \/ \E r \in Readers : TryAcquireLock(r)
    \/ \E r \in Readers : Wake(r)
    \/ \E r \in Readers : Compute(r)
    \/ \E r \in Readers : ComputeRaises(r)
    \/ \E r \in Readers : Save(r)
    \/ \E r \in Readers : Release(r)
    \/ \E d \in AdvanceSteps(last.kind) : Advance(d)

SpecCacheFail == InitCache /\ [][NextCacheFail]_vars

\* C36: when a reader that acquired the refresh lock leaves the read, by
\* returning or by an exception of the recomputation, no lock record is left
\* behind, for each of the three caches.
C36_LockReleasedOnEveryExit ==
    [][\A r \in Readers :
          (/\ readers[r].lock_acquired
           /\ readers[r].pc # "done"
           /\ readers'[r].pc = "done")
             => ~HasItem(summary', "lock")]_vars

\* C37: a reader's release leaves the lock record in place when that record
\* was written by another reader that is still in its read and whose lock
\* has not expired.
C37_ReleaseKeepsOthersLock ==
    [][\A r \in Readers :
          (/\ readers[r].pc = "release"
           /\ readers'[r].pc = "done"
           /\ LockHeld
           /\ last.owner \in Readers \ {r}
           /\ readers[last.owner].lock_acquired)
             => HasItem(summary', "lock")]_vars

----------------------------------------------------------------------------
(* handle_delete_policy while units of work that read the policy as active
   are in flight (SpecDeleteRace) *)

\* units of work in flight at one time
MaxInflight == 2

\* the Resource Store before the race: empty, or bucket b1 stored by the
\* inventory scan of account 111 with a non-compliant configuration
RaceInventories ==
    {EmptyTable,
     upsert_resource(EmptyTable, "111", "s3", PersistArn, PublicConfig, 1)}

InitDeleteRace ==
    /\ resources \in RaceInventories
    /\ findings = EmptyTable
    /\ policies = PutItem(EmptyTable, PersistPolicy,
                          LaunchedItem(PersistPolicy, EmptyScope, NoneValue))
    /\ last = NoOp
    /\ inflight = {}
    /\ CacheIdle

\* process_event up to get_active_policies_for_service: the changed resource
\* is upserted and the active policies of its service are read
EventReadsPolicies(resource_arn, described, describe_time_ms) ==
    LET r == process_event(resources, findings, policies, resource_arn,
                           describe_time_ms, described, describe_time_ms,
                           describe_time_ms) IN
    /\ Cardinality(inflight) < MaxInflight
    /\ r.outcome = "evaluated"
    /\ resources' = r.resources
    /\ inflight' = inflight \cup
          {[unit |-> "event", resource_arn |-> resource_arn, config |-> described,
            describe_time_ms |-> describe_time_ms,
            service_policies |-> get_active_policies_for_service(
                                     policies, get_service_from_arn(resource_arn))]}
    /\ last' = [op |-> "process_event", step |-> "read"]
    /\ UNCHANGED <<findings, policies, summary, readers, clock>>

\* the policy loop of process_event with the policies it had read
EventEvaluates(u, now) ==
    /\ u \in inflight
    /\ u.unit = "event"
    /\ findings' = EvaluationLoop(findings, u.service_policies, u.resource_arn,
                                  u.config, u.describe_time_ms, now)
    /\ inflight' = inflight \ {u}
    /\ last' = [op |-> "process_event", step |-> "evaluated"]
    /\ UNCHANGED <<resources, policies, summary, readers, clock>>

\* scan_policy up to list_launched_policies: the launched policies are read
SweepReadsPolicies(event) ==
    /\ Cardinality(inflight) < MaxInflight
    /\ inflight' = inflight \cup {[unit |-> "sweep", event |-> event,
                                   launched |-> policies]}
    /\ last' = [op |-> "scan_policy", step |-> "read"]
    /\ UNCHANGED <<resources, findings, policies, summary, readers, clock>>

\* the loops of scan_policy with the launched policies it had read
SweepEvaluates(u, now) ==
    /\ u \in inflight
    /\ u.unit = "sweep"
    /\ findings' = scan_policy(findings, resources, u.launched, u.event, now).table
    /\ inflight' = inflight \ {u}
    /\ last' = [op |-> "scan_policy", step |-> "evaluated"]
    /\ UNCHANGED <<resources, policies, summary, readers, clock>>

\* handle_delete_policy, its purge succeeding
DeleteDuringWork(policy_id, now_ms) ==
    HandleDeletePolicy(policy_id, now_ms, FALSE, {})

NextDeleteRace ==
    \/ \E described \in {PublicConfig, PrivateConfig}, t \in Stamps :
          EventReadsPolicies(PersistArn, described, t)
    \/ \E u \in inflight, now \in Stamps : EventEvaluates(u, now)
    \/ SweepReadsPolicies([scan_type |-> "anti-entropy"])
    \/ \E u \in inflight, now \in Stamps : SweepEvaluates(u, now)
    \/ \E now \in Stamps : DeleteDuringWork(PersistPolicy, now)

SpecDeleteRace == InitDeleteRace /\ [][NextDeleteRace]_vars

\* C38: once the policy is deleted and no unit of work is in flight, no
\* finding of the policy is ACTIVE.
C38_NoActiveFindingAfterDelete ==
    (~HasItem(policies, PersistPolicy) /\ inflight = {}) =>
        \A k \in DOMAIN findings :
            findings[k].Policy = PersistPolicy => ~IsActive(findings, k)

----------------------------------------------------------------------------
(* Long-lived API processes, each with its own PolicyManager and the
   lru_cache of its read methods (SpecMemo); here readers holds, per
   process, what its lru_cache has memoized *)

MaxProcesses == 2
ApiProcesses == 1..MaxProcesses

\* the lru_cache of get_launched_policy (by policy_id) and of
\* list_launched_policies (by status_filter), empty
EmptyMemo == [get |-> EmptyTable, list |-> EmptyTable]

\* get_launched_policy without its lru_cache: the row deserialized, or None
ReadLaunchedPolicy(table, policy_id) ==
    IF HasItem(table, policy_id) THEN _deserialize_launched_policy(table[policy_id])
    ELSE NoneValue

\* functools.lru_cache: the value memoized for the arguments, else the value
\* the method computes now
Memoized(memo, key, fresh) == IF HasItem(memo, key) THEN memo[key] ELSE fresh

\* PolicyManager.get_launched_policy (@lru_cache)
get_launched_policy(memo, table, policy_id) ==
    Memoized(memo.get, policy_id, ReadLaunchedPolicy(table, policy_id))

\* the lru_cache contents after a call of get_launched_policy
AfterGet(memo, table, policy_id) ==
    [memo EXCEPT !.get = PutItem(@, policy_id, get_launched_policy(memo, table, policy_id))]

\* PolicyManager.list_launched_policies('active') (@lru_cache): the policy
\* ids of the list
ListActive(memo, table) ==
    Memoized(memo.list, "active",
             {p.policy_id : p \in list_launched_policies(table, Some("active"))})

\* PolicyManager._clear_policy_cache: cache_clear of the calling process
_clear_policy_cache(memo) == EmptyMemo

InitMemo ==
    /\ resources = EmptyTable
    /\ findings = EmptyTable
    /\ policies = EmptyTable
    /\ last = NoOp
    /\ inflight = {}
    /\ summary = <<>>
    /\ clock = 0
    /\ readers = [pr \in ApiProcesses |-> EmptyMemo]

\* handle_launch_policy in process pr
ApiLaunch(pr, policy_id, scope) ==
    /\ policies' = PutItem(policies, policy_id, LaunchedItem(policy_id, scope, NoneValue))
    /\ readers' = [readers EXCEPT ![pr] = _clear_policy_cache(@)]
    /\ last' = [op |-> "handle_launch_policy", process |-> pr]
    /\ UNCHANGED <<resources, findings, inflight, summary, clock>>

\* handle_update_policy in process pr: update_launched_policy clears the
\* cache only when the row exists
ApiUpdate(pr, policy_id, scope) ==
    /\ IF HasItem(policies, policy_id)
       THEN /\ policies' = [policies EXCEPT ![policy_id].Scope = scope]
            /\ readers' = [readers EXCEPT ![pr] = _clear_policy_cache(@)]
       ELSE UNCHANGED <<policies, readers>>
    /\ last' = [op |-> "handle_update_policy", process |-> pr]
    /\ UNCHANGED <<resources, findings, inflight, summary, clock>>

\* handle_delete_policy in process pr: get_launched_policy, then the purge and
\* delete_launched_policy, which clears the cache
ApiDelete(pr, policy_id, now_ms) ==
    /\ IF get_launched_policy(readers[pr], policies, policy_id) = NoneValue
       THEN /\ readers' = [readers EXCEPT ![pr] = AfterGet(@, policies, policy_id)]
            /\ UNCHANGED <<policies, findings>>
       ELSE /\ findings' = purge_findings_for_policy(findings, policy_id, now_ms,
                                                     FALSE, {}).table
            /\ policies' = DeleteItem(policies, policy_id)
            /\ readers' = [readers EXCEPT ![pr] = _clear_policy_cache(@)]
    /\ last' = [op |-> "handle_delete_policy", process |-> pr]
    /\ UNCHANGED <<resources, inflight, summary, clock>>

\* a request of process pr that calls get_launched_policy
ApiGet(pr, policy_id) ==
    /\ readers' = [readers EXCEPT ![pr] = AfterGet(@, policies, policy_id)]
    /\ last' = [op |-> "get_launched_policy", process |-> pr, policy_id |-> policy_id,
                result |-> get_launched_policy(readers[pr], policies, policy_id)]
    /\ UNCHANGED <<resources, findings, policies, inflight, summary, clock>>

\* a request of process pr that calls list_launched_policies('active')
ApiList(pr) ==
    /\ readers' = [readers EXCEPT ![pr].list =
                       PutItem(@, "active", ListActive(readers[pr], policies))]
    /\ last' = [op |-> "list_launched_policies", process |-> pr,
                result |-> ListActive(readers[pr], policies)]
    /\ UNCHANGED <<resources, findings, policies, inflight, summary, clock>>

NextMemo ==
    \/ \E pr \in ApiProcesses, p \in PolicyIds, scope \in ScopeChoices :
          ApiLaunch(pr, p, scope)
    \/ \E pr \in ApiProcesses, p \in PolicyIds, scope \in ScopeChoices :
          ApiUpdate(pr, p, scope)
    \/ \E pr \in ApiProcesses, p \in PolicyIds, now \in Stamps : ApiDelete(pr, p, now)
    \/ \E pr \in ApiProcesses, p \in PolicyIds : ApiGet(pr, p)
    \/ \E pr \in ApiProcesses : ApiList(pr)

SpecMemo == InitMemo /\ [][NextMemo]_vars

\* C39: what get_launched_policy and list_launched_policies answer in any
\* process is what the launched-policies table holds at that request.
C39_MutationSeenByEveryProcess ==
    /\ last.op = "get_launched_policy" =>
          last.result = ReadLaunchedPolicy(policies, last.policy_id)
    /\ last.op = "list_launched_policies" =>
          last.result = {p \in DOMAIN policies : policies[p].Status = "active"}

----------------------------------------------------------------------------
(* handle_update_policy changing the scope of a launched policy, with the
   re-scan it triggers (SpecRescope) *)

\* the scopes of the update: every account, or only an account other than
\* the one the buckets belong to
RescopeChoices == {EmptyScope, [EmptyScope EXCEPT !.include_accounts = {"222"}]}

\* the asynchronous invoke of the scanner: the re-scan runs to its end, or
\* the invoke fails and is only logged
RescanOutcomes == {"completed", "not_triggered"}

InitRescope ==
    /\ resources \in Inventories
    /\ findings = EmptyTable
    /\ policies = PutItem(EmptyTable, PersistPolicy,
                          LaunchedItem(PersistPolicy, EmptyScope, NoneValue))
    /\ last = NoOp
    /\ inflight = {}
    /\ CacheIdle

\* scan_policy for the whole inventory
FullSweep(now) ==
    /\ findings' = scan_policy(findings, resources, policies,
                               [scan_type |-> "anti-entropy"], now).table
    /\ last' = [op |-> "scan_policy"]
    /\ UNCHANGED <<resources, policies, inflight, summary, readers, clock>>

\* handle_update_policy with a scope in the body: update_launched_policy, then
\* the re-scan of the policy (scan_type bootstrap) it invokes
HandleUpdatePolicy(policy_id, scope, rescan, now) ==
    LET updated == [policies EXCEPT ![policy_id].Scope = scope] IN
    /\ HasItem(policies, policy_id)
    /\ policies' = updated
    /\ findings' = IF rescan = "completed"
                   THEN scan_policy(findings, resources, updated,
                                    [scan_type |-> "bootstrap", policy_id |-> policy_id],
                                    now).table
                   ELSE findings
    /\ last' = [op |-> "handle_update_policy", policy_id |-> policy_id,
                scope |-> scope, rescan |-> rescan]
    /\ UNCHANGED <<resources, inflight, summary, readers, clock>>

NextRescope ==
    \/ \E now \in Stamps : FullSweep(now)
    \/ \E scope \in RescopeChoices, rescan \in RescanOutcomes, now \in Stamps :
          HandleUpdatePolicy(PersistPolicy, scope, rescan, now)

SpecRescope == InitRescope /\ [][NextRescope]_vars

\* C40: after a scope update whose re-scan has completed, no resource stored
\* under an account that the new scope leaves out has an ACTIVE finding of
\* the policy.
C40_NoActiveFindingOutOfScope ==
    (last.op = "handle_update_policy" /\ last.rescan = "completed") =>
        \A k \in DOMAIN resources :
            ~should_evaluate_resource(k[1][1], k[2], last.scope)
               => ~IsActive(findings, FindingKey(k[2], last.policy_id))

====
